---- MODULE Spec2Model ----
(***************************************************************************)
(* State-machine model of the nanochat-platform single-page frontend:      *)
(* the authentication context (store/AuthContext), the router and its      *)
(* route guards (App.jsx), the Register page, the Dashboard's logout and   *)
(* navigation, the notebook editor (pages/NotebookPage) with its code      *)
(* cells (components/CodeCell), and the chat, inference and evaluation     *)
(* pages (pages/ChatPage, pages/InferencePage, pages/EvalPage).            *)
(*                                                                         *)
(* React state of a page lives only while the page is mounted; a page that *)
(* is unmounted loses its state, and a promise continuation that calls a   *)
(* setter of an unmounted page changes nothing.  The AuthProvider is       *)
(* mounted for the whole page session.                                     *)
(***************************************************************************)
EXTENDS Integers, Sequences, FiniteSets, TLC

\* ------------------------------------------------------------------ values
NULL == "null"

Users == {"alice", "bob"}

\* tokens the server has issued, and one it no longer accepts
ValidTokens == {"tok_alice", "tok_bob"}
Tokens == ValidTokens \cup {"tok_stale"}

Owner(t) == IF t = "tok_alice" THEN "alice" ELSE "bob"

TokenOf(u) == IF u = "alice" THEN "tok_alice" ELSE "tok_bob"

\* the Authorization header of a request: absent, or `Bearer ${t}`
NoHeader == [scheme |-> "none", cred |-> NULL]

Bearer(t) == [scheme |-> "Bearer", cred |-> t]

\* error details a failed /auth/register or /auth/login response may carry;
\* NULL: the error has no response body (network error)
Details == {NULL, "Username already registered"}

\* ------------------------------------------------------------------ bounds
\* requests of unmounted page instances that may still be in flight
MaxOrphans == 1

\* projects the server may list for the dashboard
MaxProjects == 1

\* cells the editor may hold
MaxCells == 2

\* save requests one editor session may start
MaxSaves == 2

\* overlapping GET /api/ipynb/list requests of one editor session
MaxInFlight == 1

\* runs of code cells whose stream has not ended
MaxRuns == 1

\* runs of code cells one editor session may start
MaxStarted == 2

\* chat completion streams that may be open at once
MaxStreams == 1

\* messages a conversation may hold
MaxMessages == 4

\* checkpoints a model catalog may list
MaxModels == 3

\* evaluation tasks started in one session of the eval page
MaxTasks == 2

\* status requests in flight at once
MaxPolls == 2

\* steps of progress the backend reports for a task
MaxProgress == 2

\* ---------------------------------------------------------- notebook data
\* a cell of the editor: {type, content, output, execution_count};
\* execution_count 0 stands for null
Cell(t, c, o) == [type |-> t, content |-> c, output |-> o, execution_count |-> 0]

\* texts the user may type into a cell's editor
Contents == {"", "x = 1"}

\* cell arrays GET /api/notebooks/{id} may answer with; NULL: no cells field
ServerCells ==
    { NULL,
      <<>>,
      <<Cell("code", "x = 1", "1")>>,
      <<Cell("markdown", "# Title", NULL), Cell("code", "x = 1", NULL)>> }

\* importable files and the cells GET /api/ipynb/load/{filename} answers with:
\* {type, code, output, execution_count}
FileNames == {"tutorial.ipynb", "empty.ipynb"}

\* lists GET /api/ipynb/list may answer with
FileLists == {{}, FileNames}

IpynbCell(t, c) == [type |-> t, code |-> c, output |-> "", execution_count |-> 0]

IpynbCells(f) ==
    IF f = "tutorial.ipynb"
    THEN <<IpynbCell("markdown", "# Title"), IpynbCell(NULL, "x = 1")>>
    ELSE <<>>

\* JavaScript a || b on the values used here
Falsy(v) == v = NULL \/ v = ""

Or(v, d) == IF Falsy(v) THEN d ELSE v

VARIABLES
    \* AuthProvider and the browser
    token,          \* localStorage 'token'
    authHeader,     \* axios.defaults.headers.common['Authorization']
    user,           \* AuthProvider state
    loading,        \* AuthProvider state
    mePending,      \* GET /api/auth/me in flight: the token it was sent with
    \* router
    path,           \* current location
    rendered,       \* element the matching route renders
    \* Register page
    regError, regLoading, regPending, regOrphans,
    \* Login page
    loginError, loginLoading, loginPending, loginOrphans,
    \* Dashboard
    projects, notebooks, dashLoading, dashPending, dashIdx,
    \* NotebookPage
    notebook,       \* the loaded notebook, NULL before
    cells,
    saving,
    lastSaved,      \* 0: null, else the time of the last accepted save
    showOpenModal,
    availableFiles,
    loadingFiles,
    nbLoadPending,  \* GET /api/notebooks/{id} in flight
    nbLoadOrphans,  \* the same, of pages unmounted since
    savePending,    \* PUT /api/notebooks/{id} in flight
    listPending,    \* GET /api/ipynb/list in flight
    filePending,    \* files whose GET /api/ipynb/load is in flight
    putLens,        \* the number of entries of each PUT body sent so far
    \* CodeCell instances of the editor, one per index (key={index})
    cellRunning,    \* running of each instance
    cellOutput,     \* output of each instance: the text its pane displays
    cellEditMode,   \* editMode of each instance
    runs,           \* handleRun calls whose stream has not ended
    started,        \* the number of handleRun calls so far
    \* ChatPage
    messages,       \* ChatPage state: <<[role, content]>>
    input,          \* ChatPage state
    isGenerating,   \* ChatPage state
    chatStream,     \* the sendMessage call in flight, a sequence of at most one
    chatBroken,     \* a state updater of the page threw while rendering
    \* InferencePage
    infModels,      \* models: the catalog, <<[path, type, step]>>
    infSelected,    \* selectedModel: a path, "" before
    infLoading,     \* loading
    infError,       \* error
    infMaxTokens,   \* maxTokens
    infPending,     \* GET /inference/models in flight
    \* EvalPage
    evalBenchmarks, \* benchmarks: the catalog of benchmark ids
    evalModels,     \* models: the catalog of model ids
    evalResults,    \* results: the finished tasks the server listed last
    selectedBenchmarks,
    evalSelected,   \* selectedModel: a model id, "" before
    evalLoading,    \* loading
    runningTasks,   \* <<[task_id, model_id, benchmarks, status]>>
    catalogPending, \* the mount requests in flight
    runPending,     \* POST /eval/run in flight: [model_id, benchmarks] each
    intervals,      \* task ids whose setInterval is not cleared
    polls,          \* GET /eval/status/{id} in flight: the task id of each
    resultsPending, \* GET /eval/results in flight
    issued,         \* the number of task ids the server has issued
    finished,       \* task ids a handled poll reported completed or failed
    serverProgress, \* the backend's progress of each issued task, by task id
    pollProgress,   \* the progress the response of each status request in flight carries
    \* observation
    sent,           \* requests issued by the step taken last
    ev              \* the handler step taken last

authVars == <<token, authHeader, user, loading, mePending>>
routeVars == <<path, rendered>>
regVars == <<regError, regLoading, regPending, regOrphans>>
loginVars == <<loginError, loginLoading, loginPending, loginOrphans>>
dashVars == <<projects, notebooks, dashLoading, dashPending, dashIdx>>
nbVars == <<notebook, cells, saving, lastSaved, showOpenModal, availableFiles,
            loadingFiles, nbLoadPending, nbLoadOrphans, savePending, listPending,
            filePending, putLens>>
cellVars == <<cellRunning, cellOutput, cellEditMode, runs, started>>
chatVars == <<messages, input, isGenerating, chatStream, chatBroken>>
infVars == <<infModels, infSelected, infLoading, infError, infMaxTokens, infPending>>
evalVars == <<evalBenchmarks, evalModels, evalResults, selectedBenchmarks, evalSelected,
              evalLoading, runningTasks, catalogPending, runPending, intervals, polls,
              resultsPending, issued, finished, serverProgress, pollProgress>>
pageVars == <<chatVars, infVars, evalVars>>

\* ChatPage useState initial values
ChatInitial ==
    /\ messages = <<>> /\ input = "" /\ isGenerating = FALSE
    /\ chatStream = <<>> /\ chatBroken = FALSE

\* InferencePage useState initial values
InfInitial ==
    /\ infModels = <<>> /\ infSelected = "" /\ infLoading = TRUE /\ infError = ""
    /\ infMaxTokens = 512 /\ infPending = FALSE

\* EvalPage useState initial values
EvalInitial ==
    /\ evalBenchmarks = <<>> /\ evalModels = <<>> /\ evalResults = {}
    /\ selectedBenchmarks = <<>> /\ evalSelected = "" /\ evalLoading = TRUE
    /\ runningTasks = <<>> /\ catalogPending = {} /\ runPending = <<>>
    /\ intervals = {} /\ polls = <<>> /\ resultsPending = 0 /\ issued = 0
    /\ finished = {} /\ serverProgress = <<>> /\ pollProgress = <<>>

\* the state of the pages that are not mounted
PagesInitial == ChatInitial /\ InfInitial /\ EvalInitial
vars == <<authVars, routeVars, regVars, loginVars, dashVars, nbVars, cellVars,
          pageVars, sent, ev>>

\* ------------------------------------------------------------------ router
\* a guard that renders its children whatever the user is
PrivateRoute_noGuard(u, children) == children

PrivateRoute(u, children) == IF u # NULL THEN children ELSE "NavigateLogin"

PublicRoute(u, children) == IF u # NULL THEN "NavigateDashboard" ELSE children

Paths == {"/", "/login", "/register", "/dashboard", "/notebook", "/chat", "/eval"}

Routes(p, u) ==
    CASE p = "/"          -> "NavigateDashboard"
      [] p = "/login"     -> PublicRoute(u, "Login")
      [] p = "/register"  -> PublicRoute(u, "Register")
      [] p = "/dashboard" -> PrivateRoute(u, "Dashboard")
      [] p = "/notebook"  -> PrivateRoute(u, "NotebookPage")
      [] p = "/chat"      -> PrivateRoute(u, "ChatPage")
      [] p = "/eval"      -> PrivateRoute(u, "EvalPage")

Redirecting == rendered \in {"NavigateLogin", "NavigateDashboard"}

\* a request as it leaves the browser, with what the browser holds then
Req(ep, auth, stored, u) ==
    [ep |-> ep, auth |-> auth, stored |-> stored, loggedIn |-> u # NULL]

\* ---------------------------------------------------- page mount / unmount
\* Each operator gives a page's state after a step that renders r2 and is
\* not a handler of that page.

RegisterMount(r2) ==
    IF rendered = "Register" /\ r2 # "Register"
    THEN /\ regError' = ""
         /\ regLoading' = FALSE
         /\ regPending' = FALSE
         /\ regOrphans' = IF regPending /\ regOrphans < MaxOrphans
                           THEN regOrphans + 1 ELSE regOrphans
    ELSE UNCHANGED regVars

LoginMount(r2) ==
    IF rendered = "Login" /\ r2 # "Login"
    THEN /\ loginError' = ""
         /\ loginLoading' = FALSE
         /\ loginPending' = FALSE
         /\ loginOrphans' = IF loginPending /\ loginOrphans < MaxOrphans
                             THEN loginOrphans + 1 ELSE loginOrphans
    ELSE UNCHANGED loginVars

\* Dashboard: useState initial values, and useEffect(() => loadProjects(), [])
DashboardMount(r2) ==
    IF rendered # "Dashboard" /\ r2 = "Dashboard"
    THEN /\ projects' = 0
         /\ notebooks' = FALSE
         /\ dashLoading' = TRUE
         /\ dashPending' = "projects"
         /\ dashIdx' = 0
    ELSE IF rendered = "Dashboard" /\ r2 # "Dashboard"
    THEN /\ projects' = 0
         /\ notebooks' = FALSE
         /\ dashLoading' = TRUE
         /\ dashPending' = "none"
         /\ dashIdx' = 0
    ELSE UNCHANGED dashVars

\* NotebookPage: useState initial values
NotebookInitial ==
    /\ notebook' = NULL
    /\ cells' = <<>>
    /\ saving' = FALSE
    /\ lastSaved' = 0
    /\ showOpenModal' = FALSE
    /\ availableFiles' = {}
    /\ loadingFiles' = FALSE
    /\ savePending' = 0
    /\ listPending' = 0
    /\ filePending' = {}
    /\ putLens' = <<>>

\* NotebookPage: useEffect(() => loadNotebook(), [id]) on mount
NotebookMount(r2) ==
    IF rendered # "NotebookPage" /\ r2 = "NotebookPage"
    THEN /\ NotebookInitial
         /\ nbLoadPending' = TRUE
         /\ UNCHANGED nbLoadOrphans
    ELSE IF rendered = "NotebookPage" /\ r2 # "NotebookPage"
    THEN /\ NotebookInitial
         /\ nbLoadPending' = FALSE
         /\ nbLoadOrphans' = IF nbLoadPending /\ nbLoadOrphans < MaxOrphans
                              THEN nbLoadOrphans + 1 ELSE nbLoadOrphans
    ELSE UNCHANGED nbVars

\* requests the mount effects of the page rendered next issue (axios)
MountReqs(r2) ==
    IF rendered = r2 THEN {}
    ELSE IF r2 = "Dashboard"
    THEN {Req("GET /projects/", authHeader', token', user')}
    ELSE IF r2 = "NotebookPage"
    THEN {Req("GET /notebooks/{id}", authHeader', token', user')}
    ELSE {}

\* the router renders the route of p for user u: pages left are unmounted,
\* the page entered is mounted; own: the requests of the handler itself
Render(p, u, own) ==
    /\ path' = p
    /\ rendered' = Routes(p, u)
    /\ RegisterMount(Routes(p, u))
    /\ LoginMount(Routes(p, u))
    /\ DashboardMount(Routes(p, u))
    /\ NotebookMount(Routes(p, u))
    /\ sent' = own \cup MountReqs(Routes(p, u))

\* ------------------------------------------------------------ AuthProvider
\* useEffect on mount: read the stored token, set the default header and
\* start fetchUser, or clear the loading flag
Init ==
    /\ token \in Tokens \cup {NULL}
    /\ authHeader = IF token # NULL THEN Bearer(token) ELSE NoHeader
    /\ user = NULL
    /\ loading = (token # NULL)
    /\ mePending = token
    /\ path \in Paths
    /\ rendered = Routes(path, NULL)
    /\ regError = "" /\ regLoading = FALSE /\ regPending = FALSE /\ regOrphans = 0
    /\ loginError = "" /\ loginLoading = FALSE /\ loginPending = FALSE /\ loginOrphans = 0
    /\ projects = 0 /\ notebooks = FALSE /\ dashLoading = TRUE /\ dashPending = "none" /\ dashIdx = 0
    /\ notebook = NULL /\ cells = <<>> /\ saving = FALSE /\ lastSaved = 0
    /\ showOpenModal = FALSE /\ availableFiles = {} /\ loadingFiles = FALSE
    /\ nbLoadPending = FALSE /\ nbLoadOrphans = 0 /\ savePending = 0
    /\ listPending = 0 /\ filePending = {} /\ putLens = <<>>
    /\ cellRunning = <<>> /\ cellOutput = <<>> /\ cellEditMode = <<>> /\ runs = <<>>
    /\ started = 0
    /\ PagesInitial
    /\ sent = IF token # NULL
              THEN {Req("GET /auth/me", Bearer(token), token, NULL)}
              ELSE {}
    /\ ev = [op |-> "load"]

\* login(): the statements after the awaited POST returned
login(access_token, userData) ==
    /\ token' = access_token
    /\ authHeader' = Bearer(access_token)
    /\ user' = userData

\* register() that keeps the session in memory only
register_noStore(access_token, userData) ==
    /\ token' = token
    /\ authHeader' = Bearer(access_token)
    /\ user' = userData

\* register(): the statements after the awaited POST returned
register(access_token, userData) ==
    /\ token' = access_token
    /\ authHeader' = Bearer(access_token)
    /\ user' = userData

\* logout that leaves the default header in place
logout_keepHeader ==
    /\ token' = NULL
    /\ authHeader' = authHeader
    /\ user' = NULL

logout ==
    /\ token' = NULL
    /\ authHeader' = NoHeader
    /\ user' = NULL

\* fetchUser: GET /api/auth/me answered with the user record
FetchUserOk ==
    /\ ~Redirecting
    /\ mePending \in ValidTokens
    /\ user' = Owner(mePending)
    /\ loading' = FALSE
    /\ mePending' = NULL
    /\ UNCHANGED <<token, authHeader>>
    /\ Render(path, Owner(mePending), {})
    /\ UNCHANGED pageVars
    /\ UNCHANGED cellVars
    /\ ev' = [op |-> "fetchUserOk"]

\* a fetchUser whose catch branch only logs
FetchUserFail_noLogout ==
    /\ ~Redirecting
    /\ mePending # NULL
    /\ UNCHANGED <<token, authHeader, user>>
    /\ loading' = FALSE
    /\ mePending' = NULL
    /\ Render(path, user, {})
    /\ UNCHANGED pageVars
    /\ UNCHANGED cellVars
    /\ ev' = [op |-> "fetchUserFail",
              again |-> (token = NULL /\ authHeader = NoHeader /\ user = NULL)]

\* fetchUser: the request failed (rejected token, network error)
FetchUserFail ==
    /\ ~Redirecting
    /\ mePending # NULL
    /\ logout
    /\ loading' = FALSE
    /\ mePending' = NULL
    /\ Render(path, NULL, {})
    /\ UNCHANGED pageVars
    /\ UNCHANGED cellVars
    /\ ev' = [op |-> "fetchUserFail",
              again |-> (token = NULL /\ authHeader = NoHeader /\ user = NULL)]

\* <Navigate to=...>: the effect of the rendered redirect
NavigateEffect ==
    /\ Redirecting
    /\ UNCHANGED authVars
    /\ Render(IF rendered = "NavigateLogin" THEN "/login" ELSE "/dashboard", user, {})
    /\ UNCHANGED pageVars
    /\ UNCHANGED cellVars
    /\ ev' = [op |-> "navigate"]

\* ----------------------------------------------------------- Register page
\* handleSubmit with password !== confirmPassword
RegisterMismatch ==
    /\ rendered = "Register" /\ ~regLoading
    /\ regError' = "Passwords do not match"
    /\ UNCHANGED <<regLoading, regPending, regOrphans>>
    /\ UNCHANGED <<authVars, routeVars, loginVars, dashVars, nbVars>>
    /\ sent' = {}
    /\ UNCHANGED pageVars
    /\ UNCHANGED cellVars
    /\ ev' = [op |-> "registerMismatch"]

\* handleSubmit up to the awaited register(): POST /api/auth/register
RegisterSubmit ==
    /\ rendered = "Register" /\ ~regLoading
    /\ regError' = ""
    /\ regLoading' = TRUE
    /\ regPending' = TRUE
    /\ sent' = {Req("POST /auth/register", authHeader, token, user)}
    /\ UNCHANGED <<regOrphans, authVars, routeVars, loginVars, dashVars, nbVars>>
    /\ UNCHANGED pageVars
    /\ UNCHANGED cellVars
    /\ ev' = [op |-> "registerSubmit"]

\* the POST succeeded: register() stores the session, handleSubmit navigates
RegisterOk(u) ==
    /\ rendered = "Register" /\ regPending
    /\ register(TokenOf(u), u)
    /\ UNCHANGED <<loading, mePending>>
    /\ path' = "/dashboard"
    /\ rendered' = Routes("/dashboard", u)
    /\ regError' = "" /\ regLoading' = FALSE /\ regPending' = FALSE
    /\ UNCHANGED <<regOrphans, loginVars>>
    /\ DashboardMount(Routes("/dashboard", u))
    /\ NotebookMount(Routes("/dashboard", u))
    /\ sent' = MountReqs(Routes("/dashboard", u))
    /\ UNCHANGED pageVars
    /\ UNCHANGED cellVars
    /\ ev' = [op |-> "registerOk", tok |-> TokenOf(u), usr |-> u]

\* handleSubmit without its finally block
RegisterFail_noFinally(d) ==
    /\ rendered = "Register" /\ regPending
    /\ regError' = IF d # NULL THEN d ELSE "Registration failed"
    /\ regLoading' = regLoading
    /\ regPending' = FALSE
    /\ UNCHANGED <<regOrphans, authVars, routeVars, loginVars, dashVars, nbVars>>
    /\ sent' = {}
    /\ UNCHANGED pageVars
    /\ UNCHANGED cellVars
    /\ ev' = [op |-> "registerFail", detail |-> d, mounted |-> TRUE]

\* the POST failed: handleSubmit shows the detail, finally clears loading
RegisterFail(d) ==
    /\ rendered = "Register" /\ regPending
    /\ regError' = IF d # NULL THEN d ELSE "Registration failed"
    /\ regLoading' = FALSE
    /\ regPending' = FALSE
    /\ UNCHANGED <<regOrphans, authVars, routeVars, loginVars, dashVars, nbVars>>
    /\ sent' = {}
    /\ UNCHANGED pageVars
    /\ UNCHANGED cellVars
    /\ ev' = [op |-> "registerFail", detail |-> d, mounted |-> TRUE]

\* the same continuations after the submitting page has been unmounted:
\* its setters change nothing, register() and navigate() still act
RegisterOkUnmounted(u) ==
    /\ ~Redirecting
    /\ regOrphans > 0
    /\ register(TokenOf(u), u)
    /\ UNCHANGED <<loading, mePending>>
    /\ path' = "/dashboard"
    /\ rendered' = Routes("/dashboard", u)
    /\ regError' = "" /\ regLoading' = FALSE /\ regPending' = FALSE
    /\ regOrphans' = IF rendered = "Register" /\ regPending
                      THEN regOrphans ELSE regOrphans - 1
    /\ LoginMount(Routes("/dashboard", u))
    /\ DashboardMount(Routes("/dashboard", u))
    /\ NotebookMount(Routes("/dashboard", u))
    /\ sent' = MountReqs(Routes("/dashboard", u))
    /\ UNCHANGED pageVars
    /\ UNCHANGED cellVars
    /\ ev' = [op |-> "registerOk", tok |-> TokenOf(u), usr |-> u]

RegisterFailUnmounted(d) ==
    /\ ~Redirecting
    /\ regOrphans > 0
    /\ regOrphans' = regOrphans - 1
    /\ UNCHANGED <<regError, regLoading, regPending>>
    /\ UNCHANGED <<authVars, routeVars, loginVars, dashVars, nbVars>>
    /\ sent' = {}
    /\ UNCHANGED pageVars
    /\ UNCHANGED cellVars
    /\ ev' = [op |-> "registerFail", detail |-> d, mounted |-> FALSE]

\* <Link to="/login">
RegisterToLogin ==
    /\ rendered = "Register"
    /\ UNCHANGED authVars
    /\ Render("/login", user, {})
    /\ UNCHANGED pageVars
    /\ UNCHANGED cellVars
    /\ ev' = [op |-> "link"]

\* -------------------------------------------------------------- Login page
\* submit up to the awaited login(): POST /api/auth/login
LoginSubmit ==
    /\ rendered = "Login" /\ ~loginLoading
    /\ loginError' = ""
    /\ loginLoading' = TRUE
    /\ loginPending' = TRUE
    /\ sent' = {Req("POST /auth/login", authHeader, token, user)}
    /\ UNCHANGED <<loginOrphans, authVars, routeVars, regVars, dashVars, nbVars>>
    /\ UNCHANGED pageVars
    /\ UNCHANGED cellVars
    /\ ev' = [op |-> "loginSubmit"]

\* the POST succeeded: login() stores the session, the page navigates
LoginOk(u) ==
    /\ rendered = "Login" /\ loginPending
    /\ login(TokenOf(u), u)
    /\ UNCHANGED <<loading, mePending>>
    /\ path' = "/dashboard"
    /\ rendered' = Routes("/dashboard", u)
    /\ loginError' = "" /\ loginLoading' = FALSE /\ loginPending' = FALSE
    /\ UNCHANGED <<loginOrphans, regVars>>
    /\ DashboardMount(Routes("/dashboard", u))
    /\ NotebookMount(Routes("/dashboard", u))
    /\ sent' = MountReqs(Routes("/dashboard", u))
    /\ UNCHANGED pageVars
    /\ UNCHANGED cellVars
    /\ ev' = [op |-> "loginOk", tok |-> TokenOf(u), usr |-> u]

\* the POST failed: login() throws before it stores anything
LoginFail(d) ==
    /\ rendered = "Login" /\ loginPending
    /\ loginError' = IF d # NULL THEN d ELSE "Login failed"
    /\ loginLoading' = FALSE
    /\ loginPending' = FALSE
    /\ UNCHANGED <<loginOrphans, authVars, routeVars, regVars, dashVars, nbVars>>
    /\ sent' = {}
    /\ UNCHANGED pageVars
    /\ UNCHANGED cellVars
    /\ ev' = [op |-> "loginFail", detail |-> d, mounted |-> TRUE]

LoginOkUnmounted(u) ==
    /\ ~Redirecting
    /\ loginOrphans > 0
    /\ login(TokenOf(u), u)
    /\ UNCHANGED <<loading, mePending>>
    /\ path' = "/dashboard"
    /\ rendered' = Routes("/dashboard", u)
    /\ loginError' = "" /\ loginLoading' = FALSE /\ loginPending' = FALSE
    /\ loginOrphans' = IF rendered = "Login" /\ loginPending
                        THEN loginOrphans ELSE loginOrphans - 1
    /\ RegisterMount(Routes("/dashboard", u))
    /\ DashboardMount(Routes("/dashboard", u))
    /\ NotebookMount(Routes("/dashboard", u))
    /\ sent' = MountReqs(Routes("/dashboard", u))
    /\ UNCHANGED pageVars
    /\ UNCHANGED cellVars
    /\ ev' = [op |-> "loginOk", tok |-> TokenOf(u), usr |-> u]

LoginFailUnmounted(d) ==
    /\ ~Redirecting
    /\ loginOrphans > 0
    /\ loginOrphans' = loginOrphans - 1
    /\ UNCHANGED <<loginError, loginLoading, loginPending>>
    /\ UNCHANGED <<authVars, routeVars, regVars, dashVars, nbVars>>
    /\ sent' = {}
    /\ UNCHANGED pageVars
    /\ UNCHANGED cellVars
    /\ ev' = [op |-> "loginFail", detail |-> d, mounted |-> FALSE]

\* link to the Register page
LoginToRegister ==
    /\ rendered = "Login"
    /\ UNCHANGED authVars
    /\ Render("/register", user, {})
    /\ UNCHANGED pageVars
    /\ UNCHANGED cellVars
    /\ ev' = [op |-> "link"]

\* --------------------------------------------------------------- Dashboard
\* loadProjects: GET /api/projects/ answered with n projects; the loop then
\* requests the notebooks of the first project
LoadProjectsOk(n) ==
    /\ rendered = "Dashboard" /\ dashPending = "projects"
    /\ projects' = n
    /\ IF n = 0
       THEN /\ notebooks' = TRUE
            /\ dashLoading' = FALSE
            /\ dashPending' = "none"
            /\ dashIdx' = 0
            /\ sent' = {}
       ELSE /\ dashPending' = "notebooks"
            /\ dashIdx' = 1
            /\ sent' = {Req("GET /notebooks/project/{id}", authHeader, token, user)}
            /\ UNCHANGED <<notebooks, dashLoading>>
    /\ UNCHANGED <<authVars, routeVars, regVars, loginVars, nbVars>>
    /\ UNCHANGED pageVars
    /\ UNCHANGED cellVars
    /\ ev' = [op |-> "loadProjectsOk"]

\* loadProjects: the notebooks of project dashIdx arrived
LoadProjectNotebooksOk ==
    /\ rendered = "Dashboard" /\ dashPending = "notebooks"
    /\ IF dashIdx < projects
       THEN /\ dashIdx' = dashIdx + 1
            /\ sent' = {Req("GET /notebooks/project/{id}", authHeader, token, user)}
            /\ UNCHANGED <<notebooks, dashLoading, dashPending>>
       ELSE /\ notebooks' = TRUE
            /\ dashLoading' = FALSE
            /\ dashPending' = "none"
            /\ dashIdx' = 0
            /\ sent' = {}
    /\ UNCHANGED <<projects, authVars, routeVars, regVars, loginVars, nbVars>>
    /\ UNCHANGED pageVars
    /\ UNCHANGED cellVars
    /\ ev' = [op |-> "loadProjectNotebooksOk"]

\* loadProjects: any of its requests failed
LoadProjectsFail ==
    /\ rendered = "Dashboard" /\ dashPending # "none"
    /\ dashLoading' = FALSE
    /\ dashPending' = "none"
    /\ dashIdx' = 0
    /\ UNCHANGED <<projects, notebooks, authVars, routeVars, regVars, loginVars, nbVars>>
    /\ sent' = {}
    /\ UNCHANGED pageVars
    /\ UNCHANGED cellVars
    /\ ev' = [op |-> "loadProjectsFail"]

\* the Logout button: onClick={logout}
Logout ==
    /\ rendered = "Dashboard"
    /\ logout
    /\ UNCHANGED <<loading, mePending>>
    /\ Render(path, NULL, {})
    /\ UNCHANGED pageVars
    /\ UNCHANGED cellVars
    /\ ev' = [op |-> "logout"]

\* handleChatClick, handleEvalClick, and the click on a listed notebook
DashboardNavigate(p) ==
    /\ rendered = "Dashboard"
    /\ p = "/notebook" => (projects > 0 /\ notebooks)
    /\ UNCHANGED authVars
    /\ Render(p, user, {})
    /\ UNCHANGED pageVars
    /\ UNCHANGED cellVars
    /\ ev' = [op |-> "dashboardNavigate"]

\* ------------------------------------------------------------ NotebookPage
\* loadNotebook: GET /api/notebooks/{id} answered
LoadNotebookOk(cs) ==
    /\ rendered = "NotebookPage" /\ nbLoadPending
    /\ nbLoadPending' = FALSE
    /\ notebook' = "notebook"
    /\ cells' = IF cs = NULL THEN <<>> ELSE cs
    /\ UNCHANGED <<saving, lastSaved, showOpenModal, availableFiles, loadingFiles,
                   nbLoadOrphans, savePending, listPending, filePending, putLens>>
    /\ UNCHANGED <<authVars, routeVars, regVars, loginVars, dashVars>>
    /\ sent' = {}
    /\ UNCHANGED pageVars
    /\ UNCHANGED cellVars
    /\ ev' = [op |-> "loadNotebookOk"]

\* loadNotebook: the request failed: alert, navigate('/dashboard')
LoadNotebookFail ==
    /\ rendered = "NotebookPage" /\ nbLoadPending
    /\ UNCHANGED authVars
    /\ path' = "/dashboard"
    /\ rendered' = Routes("/dashboard", user)
    /\ NotebookInitial
    /\ nbLoadPending' = FALSE
    /\ UNCHANGED <<nbLoadOrphans, regVars, loginVars>>
    /\ DashboardMount(Routes("/dashboard", user))
    /\ sent' = MountReqs(Routes("/dashboard", user))
    /\ UNCHANGED pageVars
    /\ UNCHANGED cellVars
    /\ ev' = [op |-> "loadNotebookFail"]

\* the same failure after the page has been unmounted: navigate() still acts
LoadNotebookFailUnmounted ==
    /\ ~Redirecting
    /\ nbLoadOrphans > 0
    /\ UNCHANGED authVars
    /\ path' = "/dashboard"
    /\ rendered' = Routes("/dashboard", user)
    /\ NotebookInitial
    /\ nbLoadPending' = FALSE
    /\ nbLoadOrphans' = IF rendered = "NotebookPage" /\ nbLoadPending
                        THEN nbLoadOrphans ELSE nbLoadOrphans - 1
    /\ RegisterMount(Routes("/dashboard", user))
    /\ LoginMount(Routes("/dashboard", user))
    /\ DashboardMount(Routes("/dashboard", user))
    /\ sent' = MountReqs(Routes("/dashboard", user))
    /\ UNCHANGED pageVars
    /\ UNCHANGED cellVars
    /\ ev' = [op |-> "loadNotebookFail"]

\* a late answer to an unmounted page's request: its setters change nothing
LoadNotebookOkUnmounted ==
    /\ ~Redirecting
    /\ nbLoadOrphans > 0
    /\ nbLoadOrphans' = nbLoadOrphans - 1
    /\ UNCHANGED <<notebook, cells, saving, lastSaved, showOpenModal, availableFiles,
                   loadingFiles, nbLoadPending, savePending, listPending,
                   filePending, putLens>>
    /\ UNCHANGED <<authVars, routeVars, regVars, loginVars, dashVars>>
    /\ sent' = {}
    /\ UNCHANGED pageVars
    /\ UNCHANGED cellVars
    /\ ev' = [op |-> "loadNotebookOk"]

\* the Back button: navigate('/dashboard')
NotebookBack ==
    /\ rendered = "NotebookPage"
    /\ UNCHANGED authVars
    /\ Render("/dashboard", user, {})
    /\ UNCHANGED pageVars
    /\ UNCHANGED cellVars
    /\ ev' = [op |-> "back"]

\* a body that leaves out the cells without content
PutBody_skipEmpty(cs) ==
    SelectSeq([i \in 1..Len(cs) |->
                  [type |-> Or(cs[i].type, "code"),
                   content |-> Or(cs[i].content, ""),
                   output |-> Or(cs[i].output, NULL),
                   execution_count |-> cs[i].execution_count]],
              LAMBDA c : c.content # "")

\* saveNotebook's request body: cells.map(cell => ({...}))
PutBody(cs) ==
    [i \in 1..Len(cs) |->
        [type |-> Or(cs[i].type, "code"),
         content |-> Or(cs[i].content, ""),
         output |-> Or(cs[i].output, NULL),
         execution_count |-> cs[i].execution_count]]

\* saveNotebook behind a Save button that is never disabled
saveNotebook_notDisabled ==
    /\ rendered = "NotebookPage"
    /\ Len(putLens) < MaxSaves
    /\ saving' = TRUE
    /\ savePending' = savePending + 1
    /\ putLens' = Append(putLens, Len(PutBody(cells)))
    /\ sent' = {Req("PUT /notebooks/{id}", authHeader, token, user)}
    /\ UNCHANGED <<notebook, cells, lastSaved, showOpenModal, availableFiles,
                   loadingFiles, nbLoadPending, nbLoadOrphans, listPending, filePending>>
    /\ UNCHANGED <<authVars, routeVars, regVars, loginVars, dashVars>>
    /\ UNCHANGED pageVars
    /\ UNCHANGED cellVars
    /\ ev' = [op |-> "saveNotebook", body |-> PutBody(cells)]

\* saveNotebook up to the awaited PUT; the Save button is disabled={saving}
saveNotebook ==
    /\ rendered = "NotebookPage" /\ ~saving
    /\ Len(putLens) < MaxSaves
    /\ saving' = TRUE
    /\ savePending' = savePending + 1
    /\ putLens' = Append(putLens, Len(PutBody(cells)))
    /\ sent' = {Req("PUT /notebooks/{id}", authHeader, token, user)}
    /\ UNCHANGED <<notebook, cells, lastSaved, showOpenModal, availableFiles,
                   loadingFiles, nbLoadPending, nbLoadOrphans, listPending, filePending>>
    /\ UNCHANGED <<authVars, routeVars, regVars, loginVars, dashVars>>
    /\ UNCHANGED pageVars
    /\ UNCHANGED cellVars
    /\ ev' = [op |-> "saveNotebook", body |-> PutBody(cells)]

\* saveNotebook: the PUT was accepted: setLastSaved(new Date()), finally
SaveOk ==
    /\ rendered = "NotebookPage" /\ savePending > 0
    /\ savePending' = savePending - 1
    /\ lastSaved' = Len(putLens)
    /\ saving' = FALSE
    /\ UNCHANGED <<notebook, cells, showOpenModal, availableFiles, loadingFiles,
                   nbLoadPending, nbLoadOrphans, listPending, filePending, putLens>>
    /\ UNCHANGED <<authVars, routeVars, regVars, loginVars, dashVars>>
    /\ sent' = {}
    /\ UNCHANGED pageVars
    /\ UNCHANGED cellVars
    /\ ev' = [op |-> "saveOk"]

\* saveNotebook: the PUT failed: alert, finally
SaveFail ==
    /\ rendered = "NotebookPage" /\ savePending > 0
    /\ savePending' = savePending - 1
    /\ saving' = FALSE
    /\ UNCHANGED <<notebook, cells, lastSaved, showOpenModal, availableFiles,
                   loadingFiles, nbLoadPending, nbLoadOrphans, listPending,
                   filePending, putLens>>
    /\ UNCHANGED <<authVars, routeVars, regVars, loginVars, dashVars>>
    /\ sent' = {}
    /\ UNCHANGED pageVars
    /\ UNCHANGED cellVars
    /\ ev' = [op |-> "saveFail"]

\* a handler of the editor that only replaces the cell list
SetCells(cs) ==
    /\ cells' = cs
    /\ UNCHANGED <<notebook, saving, lastSaved, showOpenModal, availableFiles,
                   loadingFiles, nbLoadPending, nbLoadOrphans, savePending,
                   listPending, filePending, putLens>>
    /\ UNCHANGED <<authVars, routeVars, regVars, loginVars, dashVars>>
    /\ sent' = {}

addCell ==
    /\ rendered = "NotebookPage"
    /\ Len(cells) < MaxCells
    /\ SetCells(Append(cells, Cell("code", "", NULL)))
    /\ UNCHANGED pageVars
    /\ ev' = [op |-> "addCell"]

\* updateCell(index, updatedCell)
updateCell(index, updatedCell) == [cells EXCEPT ![index] = updatedCell]

\* the cell editor's onChange: onChange({ ...cell, content: value || '' })
EditCell(index, value) ==
    /\ rendered = "NotebookPage"
    /\ index \in 1..Len(cells)
    /\ Or(value, "") # cells[index].content
    /\ SetCells(updateCell(index, [cells[index] EXCEPT !.content = Or(value, "")]))
    /\ UNCHANGED pageVars
    /\ ev' = [op |-> "editCell", index |-> index]

\* cells.filter((_, i) => i !== index)
Without(cs, index) ==
    [j \in 1..(Len(cs) - 1) |-> IF j < index THEN cs[j] ELSE cs[j + 1]]

\* deleteCell without the check for the last cell
deleteCell_noLastCheck(index, confirmed) ==
    /\ rendered = "NotebookPage"
    /\ index \in 1..Len(cells)
    /\ IF confirmed
       THEN SetCells(Without(cells, index))
       ELSE SetCells(cells)
    /\ UNCHANGED pageVars
    /\ ev' = [op |-> "deleteCell", index |-> index,
              asked |-> TRUE, confirmed |-> confirmed]

\* deleteCell(index); confirmed: the answer to confirm('Delete this cell?')
deleteCell(index, confirmed) ==
    /\ rendered = "NotebookPage"
    /\ index \in 1..Len(cells)
    /\ IF Len(cells) = 1
       THEN SetCells(cells)
       ELSE IF confirmed
       THEN SetCells(Without(cells, index))
       ELSE SetCells(cells)
    /\ UNCHANGED pageVars
    /\ ev' = [op |-> "deleteCell", index |-> index,
              asked |-> (Len(cells) # 1), confirmed |-> confirmed]

\* runAllCells: logs one line per cell
runAllCells ==
    /\ rendered = "NotebookPage"
    /\ SetCells(cells)
    /\ UNCHANGED pageVars
    /\ ev' = [op |-> "runAllCells"]

\* the 'Clear All Output' button: onClick={() => setCells([])}
ClearAll ==
    /\ rendered = "NotebookPage"
    /\ SetCells(<<>>)
    /\ UNCHANGED pageVars
    /\ ev' = [op |-> "clearAll", changed |-> (cells # <<>>)]

\* openFileDialog up to the awaited GET /api/ipynb/list
openFileDialog ==
    /\ rendered = "NotebookPage"
    /\ listPending < MaxInFlight
    /\ showOpenModal' = TRUE
    /\ loadingFiles' = TRUE
    /\ listPending' = listPending + 1
    /\ sent' = {Req("GET /ipynb/list", authHeader, token, user)}
    /\ UNCHANGED <<notebook, cells, saving, lastSaved, availableFiles, nbLoadPending,
                   nbLoadOrphans, savePending, filePending, putLens>>
    /\ UNCHANGED <<authVars, routeVars, regVars, loginVars, dashVars>>
    /\ UNCHANGED pageVars
    /\ UNCHANGED cellVars
    /\ ev' = [op |-> "openFileDialog"]

\* openFileDialog: the list arrived (files || []), finally
ListFilesOk(files) ==
    /\ rendered = "NotebookPage" /\ listPending > 0
    /\ listPending' = listPending - 1
    /\ availableFiles' = files
    /\ loadingFiles' = FALSE
    /\ UNCHANGED <<notebook, cells, saving, lastSaved, showOpenModal, nbLoadPending,
                   nbLoadOrphans, savePending, filePending, putLens>>
    /\ UNCHANGED <<authVars, routeVars, regVars, loginVars, dashVars>>
    /\ sent' = {}
    /\ UNCHANGED pageVars
    /\ UNCHANGED cellVars
    /\ ev' = [op |-> "listFilesOk"]

\* openFileDialog: the request failed: alert, finally
ListFilesFail ==
    /\ rendered = "NotebookPage" /\ listPending > 0
    /\ listPending' = listPending - 1
    /\ loadingFiles' = FALSE
    /\ UNCHANGED <<notebook, cells, saving, lastSaved, showOpenModal, availableFiles,
                   nbLoadPending, nbLoadOrphans, savePending, filePending, putLens>>
    /\ UNCHANGED <<authVars, routeVars, regVars, loginVars, dashVars>>
    /\ sent' = {}
    /\ UNCHANGED pageVars
    /\ UNCHANGED cellVars
    /\ ev' = [op |-> "listFilesFail"]

\* the modal's close button and its overlay: setShowOpenModal(false)
CloseModal ==
    /\ rendered = "NotebookPage" /\ showOpenModal
    /\ showOpenModal' = FALSE
    /\ UNCHANGED <<notebook, cells, saving, lastSaved, availableFiles, loadingFiles,
                   nbLoadPending, nbLoadOrphans, savePending, listPending,
                   filePending, putLens>>
    /\ UNCHANGED <<authVars, routeVars, regVars, loginVars, dashVars>>
    /\ sent' = {}
    /\ UNCHANGED pageVars
    /\ UNCHANGED cellVars
    /\ ev' = [op |-> "closeModal"]

\* loadIpynbFile up to the awaited GET: a click on a listed file
loadIpynbFile(filename) ==
    /\ rendered = "NotebookPage"
    /\ showOpenModal /\ ~loadingFiles /\ filename \in availableFiles
    /\ filePending' = filePending \cup {filename}
    /\ sent' = {Req("GET /ipynb/load/{filename}", authHeader, token, user)}
    /\ UNCHANGED <<notebook, cells, saving, lastSaved, showOpenModal, availableFiles,
                   loadingFiles, nbLoadPending, nbLoadOrphans, savePending,
                   listPending, putLens>>
    /\ UNCHANGED <<authVars, routeVars, regVars, loginVars, dashVars>>
    /\ UNCHANGED pageVars
    /\ UNCHANGED cellVars
    /\ ev' = [op |-> "loadIpynbFile", file |-> filename]

\* response.data.cells.map(cell => ({...}))
LoadedCells(doc) ==
    [i \in 1..Len(doc) |->
        [type |-> Or(doc[i].type, "code"),
         content |-> Or(doc[i].code, ""),
         output |-> Or(doc[i].output, NULL),
         execution_count |-> doc[i].execution_count]]

\* an import that appends the loaded cells to the current ones
LoadFileOk_append(filename, confirmed) ==
    /\ rendered = "NotebookPage" /\ filename \in filePending
    /\ filePending' = filePending \ {filename}
    /\ IF confirmed
       THEN /\ cells' = cells \o LoadedCells(IpynbCells(filename))
            /\ showOpenModal' = FALSE
       ELSE UNCHANGED <<cells, showOpenModal>>
    /\ UNCHANGED <<notebook, saving, lastSaved, availableFiles, loadingFiles,
                   nbLoadPending, nbLoadOrphans, savePending, listPending, putLens>>
    /\ UNCHANGED <<authVars, routeVars, regVars, loginVars, dashVars>>
    /\ sent' = {}
    /\ UNCHANGED pageVars
    /\ UNCHANGED cellVars
    /\ ev' = [op |-> "loadFileOk", file |-> filename, confirmed |-> confirmed,
              had |-> Len(cells)]

\* loadIpynbFile: the document arrived; confirmed: the answer to confirm()
LoadFileOk(filename, confirmed) ==
    /\ rendered = "NotebookPage" /\ filename \in filePending
    /\ filePending' = filePending \ {filename}
    /\ IF confirmed
       THEN /\ cells' = LoadedCells(IpynbCells(filename))
            /\ showOpenModal' = FALSE
       ELSE UNCHANGED <<cells, showOpenModal>>
    /\ UNCHANGED <<notebook, saving, lastSaved, availableFiles, loadingFiles,
                   nbLoadPending, nbLoadOrphans, savePending, listPending, putLens>>
    /\ UNCHANGED <<authVars, routeVars, regVars, loginVars, dashVars>>
    /\ sent' = {}
    /\ UNCHANGED pageVars
    /\ UNCHANGED cellVars
    /\ ev' = [op |-> "loadFileOk", file |-> filename, confirmed |-> confirmed,
              had |-> Len(cells)]

\* loadIpynbFile: the request failed: alert
LoadFileFail(filename) ==
    /\ rendered = "NotebookPage" /\ filename \in filePending
    /\ filePending' = filePending \ {filename}
    /\ UNCHANGED <<notebook, cells, saving, lastSaved, showOpenModal, availableFiles,
                   loadingFiles, nbLoadPending, nbLoadOrphans, savePending,
                   listPending, putLens>>
    /\ UNCHANGED <<authVars, routeVars, regVars, loginVars, dashVars>>
    /\ sent' = {}
    /\ UNCHANGED pageVars
    /\ UNCHANGED cellVars
    /\ ev' = [op |-> "loadFileFail", file |-> filename]

\* ----------------------------------------------------------- specification
\* ---------------------------------------------------------------- ChatPage
\* texts the user may type into the chat input
ChatInputs == {"hi", " hi ", " "}

RECURSIVE TrimStart(_)
TrimStart(x) ==
    IF Len(x) > 0 /\ SubSeq(x, 1, 1) = " " THEN TrimStart(SubSeq(x, 2, Len(x))) ELSE x

RECURSIVE TrimEnd(_)
TrimEnd(x) ==
    IF Len(x) > 0 /\ SubSeq(x, Len(x), Len(x)) = " "
    THEN TrimEnd(SubSeq(x, 1, Len(x) - 1))
    ELSE x

\* String.prototype.trim on the texts of the model
Trim(x) == TrimEnd(TrimStart(x))

\* frames of the /api/chat/completions response: a delta with content c, an
\* error object, and the sentinel.  The JSON text of a payload is written
\* {c} for a delta and {!c} for an error: it parses only when complete.
DeltaFrame(c) == "data: {" \o c \o "}\n\n"

ErrorFrame(c) == "data: {!" \o c \o "}\n\n"

DoneFrame == "data: [DONE]\n\n"

\* response bodies of the chat completion service, with the concatenation
\* of the delta contents each one carries
ChatBodies ==
    { [body |-> DeltaFrame("He") \o DeltaFrame("y") \o DoneFrame, deltas |-> "Hey",
       error |-> FALSE],
      [body |-> DeltaFrame("He") \o ErrorFrame("oom"), deltas |-> "He",
       error |-> TRUE] }

\* buffer.split('\n')
RECURSIVE SplitLines(_)
SplitLines(x) ==
    IF \E i \in 1..Len(x) : SubSeq(x, i, i) = "\n"
    THEN LET i == CHOOSE j \in 1..Len(x) :
                    /\ SubSeq(x, j, j) = "\n"
                    /\ \A h \in 1..(j - 1) : SubSeq(x, h, h) # "\n"
         IN <<SubSeq(x, 1, i - 1)>> \o SplitLines(SubSeq(x, i + 1, Len(x)))
    ELSE <<x>>

\* line.startsWith('data: ')
IsData(line) == Len(line) >= 6 /\ SubSeq(line, 1, 6) = "data: "

\* JSON.parse(data) of the payloads of the model: [ok, error, content]
ParseData(data) ==
    IF Len(data) >= 2 /\ SubSeq(data, 1, 1) = "{" /\ SubSeq(data, Len(data), Len(data)) = "}"
    THEN IF Len(data) >= 3 /\ SubSeq(data, 2, 2) = "!"
         THEN [ok |-> TRUE, error |-> TRUE, content |-> ""]
         ELSE [ok |-> TRUE, error |-> FALSE, content |-> SubSeq(data, 2, Len(data) - 1)]
    ELSE [ok |-> FALSE, error |-> FALSE, content |-> ""]

\* setMessages(prev => { updated[updated.length - 1].content += content })
\* on a message list; an empty list has no last entry and the updater throws
AppendToLast(msgs, content) ==
    [msgs EXCEPT ![Len(msgs)] = [@ EXCEPT !.content = @ \o content]]

\* the for loop over the complete lines of one read, on the page state
\* st = [messages, isGenerating, broken, sawError]; break ends the loop
RECURSIVE ProcessLines(_, _)
ProcessLines(lines, st) ==
    IF lines = <<>> \/ st.broken THEN st
    ELSE LET line == Head(lines)
             data == SubSeq(line, 7, Len(line))
             p == ParseData(data)
         IN IF ~IsData(line) THEN ProcessLines(Tail(lines), st)
            ELSE IF data = "[DONE]" THEN [st EXCEPT !.isGenerating = FALSE]
            ELSE IF ~p.ok THEN ProcessLines(Tail(lines), st)
            ELSE IF p.error THEN [st EXCEPT !.sawError = TRUE]
            ELSE IF p.content = "" THEN ProcessLines(Tail(lines), st)
            ELSE IF st.messages = <<>> THEN [st EXCEPT !.broken = TRUE]
            ELSE ProcessLines(Tail(lines),
                              [st EXCEPT !.messages = AppendToLast(@, p.content)])

\* all but the last entry, and the last entry: lines.pop()
Front(seq) == SubSeq(seq, 1, Len(seq) - 1)

Last(seq) == seq[Len(seq)]

\* a sequence without its k-th entry
Drop(seq, k) == [j \in 1..(Len(seq) - 1) |-> IF j < k THEN seq[j] ELSE seq[j + 1]]

\* the streams in flight after another handler acted on the page
Disturbed(streams) ==
    [k \in 1..Len(streams) |-> [streams[k] EXCEPT !.alone = FALSE]]

\* abortControllerRef.current no longer refers to any of the streams
Unreferenced(streams) ==
    [k \in 1..Len(streams) |-> [streams[k] EXCEPT !.abortable = FALSE]]

\* the textarea's onChange, disabled while isGenerating
ChatType(v) ==
    /\ rendered = "ChatPage" /\ ~chatBroken
    /\ ~isGenerating
    /\ v # input
    /\ input' = v
    /\ UNCHANGED <<messages, isGenerating, chatStream, chatBroken>>
    /\ UNCHANGED <<authVars, routeVars, regVars, loginVars, dashVars, nbVars, cellVars,
                 infVars, evalVars>>
    /\ sent' = {}
    /\ ev' = [op |-> "chatType"]

\* Enter in the textarea, which is enabled while not generating, with blank
\* input: sendMessage returns at its first line
sendMessageBlank ==
    /\ rendered = "ChatPage" /\ ~chatBroken
    /\ ~isGenerating
    /\ Trim(input) = ""
    /\ UNCHANGED chatVars
    /\ UNCHANGED <<authVars, routeVars, regVars, loginVars, dashVars, nbVars, cellVars,
                 infVars, evalVars>>
    /\ sent' = {}
    /\ ev' = [op |-> "sendMessageBlank"]

\* a sendMessage that appends no assistant placeholder
sendMessage_noPlaceholder(b) ==
    /\ rendered = "ChatPage" /\ ~chatBroken
    /\ Trim(input) # "" /\ ~isGenerating
    /\ Len(chatStream) < MaxStreams
    /\ Len(messages) + 2 <= MaxMessages
    /\ LET userMessage == [role |-> "user", content |-> Trim(input)]
           newMessages == Append(messages, userMessage)
       IN /\ messages' = newMessages
          /\ ev' = [op |-> "sendMessage", body |-> newMessages]
    /\ input' = ""
    /\ isGenerating' = TRUE
    /\ chatStream' = Append(Unreferenced(Disturbed(chatStream)),
                            [rest |-> b.body, buffer |-> "", deltas |-> b.deltas,
                             sentinel |-> ~b.error, alone |-> chatStream = <<>>,
                             abortable |-> TRUE, cut |-> FALSE, sawError |-> FALSE])
    /\ UNCHANGED chatBroken
    /\ UNCHANGED <<authVars, routeVars, regVars, loginVars, dashVars, nbVars, cellVars,
                 infVars, evalVars>>
    /\ sent' = {Req("POST /chat/completions", Bearer(token), token, user)}

\* sendMessage up to the awaited fetch; b: what the server is going to answer
sendMessage(b) ==
    /\ rendered = "ChatPage" /\ ~chatBroken
    /\ Trim(input) # "" /\ ~isGenerating
    /\ Len(chatStream) < MaxStreams
    /\ Len(messages) + 2 <= MaxMessages
    /\ LET userMessage == [role |-> "user", content |-> Trim(input)]
           newMessages == Append(messages, userMessage)
       IN /\ messages' = Append(newMessages, [role |-> "assistant", content |-> ""])
          /\ ev' = [op |-> "sendMessage", body |-> newMessages]
    /\ input' = ""
    /\ isGenerating' = TRUE
    /\ chatStream' = Append(Unreferenced(Disturbed(chatStream)),
                            [rest |-> b.body, buffer |-> "", deltas |-> b.deltas,
                             sentinel |-> ~b.error, alone |-> chatStream = <<>>,
                             abortable |-> TRUE, cut |-> FALSE, sawError |-> FALSE])
    /\ UNCHANGED chatBroken
    /\ UNCHANGED <<authVars, routeVars, regVars, loginVars, dashVars, nbVars, cellVars,
                 infVars, evalVars>>
    /\ sent' = {Req("POST /chat/completions", Bearer(token), token, user)}

\* one iteration of the read loop that takes each read on its own
ChatRead_noBuffer(k, n) ==
    /\ rendered = "ChatPage" /\ ~chatBroken
    /\ k \in 1..Len(chatStream)
    /\ n \in 1..Len(chatStream[k].rest)
    /\ LET c == chatStream[k]
           lines == SplitLines(SubSeq(c.rest, 1, n))
           st == ProcessLines(Front(lines),
                              [messages |-> messages, isGenerating |-> isGenerating,
                               broken |-> FALSE, sawError |-> c.sawError])
       IN /\ messages' = st.messages
          /\ isGenerating' = st.isGenerating
          /\ chatBroken' = st.broken
          /\ chatStream' =
                IF st.broken THEN <<>>
                ELSE [chatStream EXCEPT ![k] =
                        [c EXCEPT !.rest = SubSeq(c.rest, n + 1, Len(c.rest)),
                                  !.buffer = "",
                                  !.cut = c.cut \/ Last(lines) # "",
                                  !.sawError = st.sawError]]
          /\ ev' = [op |-> "chatRead", broken |-> st.broken]
    /\ UNCHANGED input
    /\ UNCHANGED <<authVars, routeVars, regVars, loginVars, dashVars, nbVars, cellVars,
                 infVars, evalVars>>
    /\ sent' = {}

\* one iteration of the read loop: the next n bytes of the response arrive;
\* buffer += chunk, the complete lines are handled, the rest is kept
ChatRead(k, n) ==
    /\ rendered = "ChatPage" /\ ~chatBroken
    /\ k \in 1..Len(chatStream)
    /\ n \in 1..Len(chatStream[k].rest)
    /\ LET c == chatStream[k]
           lines == SplitLines(c.buffer \o SubSeq(c.rest, 1, n))
           st == ProcessLines(Front(lines),
                              [messages |-> messages, isGenerating |-> isGenerating,
                               broken |-> FALSE, sawError |-> c.sawError])
       IN /\ messages' = st.messages
          /\ isGenerating' = st.isGenerating
          /\ chatBroken' = st.broken
          /\ chatStream' =
                IF st.broken THEN <<>>
                ELSE [chatStream EXCEPT ![k] =
                        [c EXCEPT !.rest = SubSeq(c.rest, n + 1, Len(c.rest)),
                                  !.buffer = Last(lines),
                                  !.cut = c.cut \/ Last(lines) # "",
                                  !.sawError = st.sawError]]
          /\ ev' = [op |-> "chatRead", broken |-> st.broken]
    /\ UNCHANGED input
    /\ UNCHANGED <<authVars, routeVars, regVars, loginVars, dashVars, nbVars, cellVars,
                 infVars, evalVars>>
    /\ sent' = {}

\* reader.read() reported done: the finally block
ChatEnd(k) ==
    /\ rendered = "ChatPage" /\ ~chatBroken
    /\ k \in 1..Len(chatStream)
    /\ chatStream[k].rest = ""
    /\ isGenerating' = FALSE
    /\ chatStream' = Unreferenced(Drop(chatStream, k))
    /\ UNCHANGED <<messages, input, chatBroken>>
    /\ UNCHANGED <<authVars, routeVars, regVars, loginVars, dashVars, nbVars, cellVars,
                 infVars, evalVars>>
    /\ sent' = {}
    /\ ev' = [op |-> "chatEnd", deltas |-> chatStream[k].deltas,
              sentinel |-> chatStream[k].sentinel, alone |-> chatStream[k].alone,
              cut |-> chatStream[k].cut, sawError |-> chatStream[k].sawError]

\* a response that is not ok, or a rejected fetch or read other than an
\* abort: the catch block writes the error text into the last message
ChatFail(k) ==
    /\ rendered = "ChatPage" /\ ~chatBroken
    /\ k \in 1..Len(chatStream)
    /\ IF messages = <<>>
       THEN /\ chatBroken' = TRUE
            /\ chatStream' = <<>>
            /\ UNCHANGED <<messages, isGenerating>>
       ELSE /\ messages' = [messages EXCEPT ![Len(messages)] =
                              [@ EXCEPT !.content =
                                  "Error: Failed to get response. Please try again."]]
            /\ isGenerating' = FALSE
            /\ chatStream' = Unreferenced(Drop(chatStream, k))
            /\ UNCHANGED chatBroken
    /\ UNCHANGED input
    /\ UNCHANGED <<authVars, routeVars, regVars, loginVars, dashVars, nbVars, cellVars,
                 infVars, evalVars>>
    /\ sent' = {}
    /\ ev' = [op |-> "chatFail", alone |-> chatStream[k].alone]

\* stopGeneration, and the AbortError the aborted call then catches
stopGeneration ==
    /\ rendered = "ChatPage" /\ ~chatBroken
    /\ isGenerating
    /\ \E k \in 1..Len(chatStream) :
          /\ chatStream[k].abortable
          /\ chatStream' = Unreferenced(Drop(chatStream, k))
    /\ isGenerating' = FALSE
    /\ UNCHANGED <<messages, input, chatBroken>>
    /\ UNCHANGED <<authVars, routeVars, regVars, loginVars, dashVars, nbVars, cellVars,
                 infVars, evalVars>>
    /\ sent' = {}
    /\ ev' = [op |-> "stopGeneration"]

\* clearChat: the Clear Chat button is enabled at any time
clearChat ==
    /\ rendered = "ChatPage" /\ ~chatBroken
    /\ messages' = <<>>
    /\ chatStream' = Disturbed(chatStream)
    /\ UNCHANGED <<input, isGenerating, chatBroken>>
    /\ UNCHANGED <<authVars, routeVars, regVars, loginVars, dashVars, nbVars, cellVars,
                 infVars, evalVars>>
    /\ sent' = {}
    /\ ev' = [op |-> "clearChat", generating |-> chatStream # <<>>]

\* ChatPage mounted for a logged-in user
InitChat ==
    /\ token = "tok_alice"
    /\ authHeader = Bearer("tok_alice")
    /\ user = "alice"
    /\ loading = FALSE
    /\ mePending = NULL
    /\ path = "/chat"
    /\ rendered = "ChatPage"
    /\ regError = "" /\ regLoading = FALSE /\ regPending = FALSE /\ regOrphans = 0
    /\ loginError = "" /\ loginLoading = FALSE /\ loginPending = FALSE /\ loginOrphans = 0
    /\ projects = 0 /\ notebooks = FALSE /\ dashLoading = TRUE
    /\ dashPending = "none" /\ dashIdx = 0
    /\ notebook = NULL /\ cells = <<>> /\ saving = FALSE /\ lastSaved = 0
    /\ showOpenModal = FALSE /\ availableFiles = {} /\ loadingFiles = FALSE
    /\ nbLoadPending = FALSE /\ nbLoadOrphans = 0 /\ savePending = 0
    /\ listPending = 0 /\ filePending = {} /\ putLens = <<>>
    /\ cellRunning = <<>> /\ cellOutput = <<>> /\ cellEditMode = <<>> /\ runs = <<>>
    /\ started = 0
    /\ PagesInitial
    /\ sent = {}
    /\ ev = [op |-> "dashboardNavigate"]

NextChat ==
    \/ \E v \in ChatInputs : ChatType(v)
    \/ \E b \in ChatBodies : sendMessage(b)
    \/ sendMessageBlank
    \/ \E k \in 1..Len(chatStream) :
          \E n \in 1..Len(chatStream[k].rest) : ChatRead(k, n)
    \/ \E k \in 1..Len(chatStream) : ChatEnd(k)
    \/ \E k \in 1..Len(chatStream) : ChatFail(k)
    \/ stopGeneration
    \/ clearChat

\* SpecChat: a conversation on the chat page
SpecChat == InitChat /\ [][NextChat]_vars

\* ----------------------------------------------------------- InferencePage
\* checkpoints the model service may list
InfModelPool ==
    { [path |-> "base/d12", type |-> "base", step |-> 7080],
      [path |-> "mid/d12", type |-> "mid", step |-> 800],
      [path |-> "sft/d12_500", type |-> "sft", step |-> 500],
      [path |-> "sft/d12_2000", type |-> "sft", step |-> 2000],
      [path |-> "sft/d20_2000", type |-> "sft", step |-> 2000] }

\* response.data.models of GET /inference/models: distinct checkpoints in any order
InfCatalogs ==
    { c \in UNION { [1..n -> InfModelPool] : n \in 0..MaxModels } :
        \A i, j \in 1..Len(c) : i # j => c[i] # c[j] }

\* err.response?.data?.detail of a failed GET /inference/models
InfDetails == {NULL, "Not authenticated"}

NoModelsMessage == "No trained models found. Please train a model first."

\* the opening sentence of the message set when /inference/chat answers 503
Unsupported503 == "Web-based inference is not available on this ARM64/CPU server."

\* values the Max Tokens slider is moved to
MaxTokenChoices == {462, 512, 562}

IsSft(m) == m.type = "sft"

\* a default that is the first sft model of the catalog
LatestModel_first(sftModels, prev) == prev

\* sftModels.reduce((prev, current) => (current.step > prev.step) ? current : prev),
\* prev being the accumulator and sftModels the entries still to visit
RECURSIVE LatestModel(_, _)
LatestModel(sftModels, prev) ==
    IF sftModels = <<>> THEN prev
    ELSE LatestModel(Tail(sftModels),
                     IF Head(sftModels).step > prev.step THEN Head(sftModels) ELSE prev)

\* the path loadModels selects for a non-empty catalog
DefaultModel(models) ==
    LET sftModels == SelectSeq(models, IsSft)
    IN  IF Len(sftModels) > 0
        THEN LatestModel(Tail(sftModels), Head(sftModels)).path
        ELSE models[1].path

\* the textarea and the Send button of the input area are rendered disabled={true}
InfInputDisabled == TRUE

InfSendDisabled == TRUE

\* loadModels, after the response of GET /inference/models
LoadModelsOk(catalog) ==
    /\ rendered = "InferencePage" /\ infPending
    /\ infPending' = FALSE
    /\ IF Len(catalog) > 0
       THEN /\ infModels' = catalog
            /\ infSelected' = DefaultModel(catalog)
            /\ UNCHANGED infError
       ELSE /\ infError' = NoModelsMessage
            /\ UNCHANGED <<infModels, infSelected>>
    /\ infLoading' = FALSE
    /\ UNCHANGED infMaxTokens
    /\ UNCHANGED <<authVars, routeVars, regVars, loginVars, dashVars, nbVars, cellVars,
                   chatVars, evalVars>>
    /\ sent' = {}
    /\ ev' = [op |-> "loadModelsOk", catalog |-> catalog]

\* loadModels, when the request fails
LoadModelsFail(detail) ==
    /\ rendered = "InferencePage" /\ infPending
    /\ infPending' = FALSE
    /\ infError' = Or(detail, "Failed to load models")
    /\ infLoading' = FALSE
    /\ UNCHANGED <<infModels, infSelected, infMaxTokens>>
    /\ UNCHANGED <<authVars, routeVars, regVars, loginVars, dashVars, nbVars, cellVars,
                   chatVars, evalVars>>
    /\ sent' = {}
    /\ ev' = [op |-> "loadModelsFail", detail |-> detail]

\* the select's onChange; the select is rendered once a non-empty catalog is loaded
InfSelectModel(p) ==
    /\ rendered = "InferencePage" /\ ~infLoading
    /\ \E i \in 1..Len(infModels) : infModels[i].path = p
    /\ p # infSelected
    /\ infSelected' = p
    /\ UNCHANGED <<infModels, infLoading, infError, infMaxTokens, infPending>>
    /\ UNCHANGED <<authVars, routeVars, regVars, loginVars, dashVars, nbVars, cellVars,
                   chatVars, evalVars>>
    /\ sent' = {}
    /\ ev' = [op |-> "selectModel", path |-> p]

\* the Max Tokens slider's onChange
setMaxTokens(v) ==
    /\ rendered = "InferencePage" /\ ~infLoading
    /\ Len(infModels) > 0
    /\ v # infMaxTokens
    /\ infMaxTokens' = v
    /\ UNCHANGED <<infModels, infSelected, infLoading, infError, infPending>>
    /\ UNCHANGED <<authVars, routeVars, regVars, loginVars, dashVars, nbVars, cellVars,
                   chatVars, evalVars>>
    /\ sent' = {}
    /\ ev' = [op |-> "setMaxTokens", value |-> v]

\* InferencePage mounted for a logged-in user, its mount effect having called loadModels
InitInf ==
    /\ token = "tok_alice"
    /\ authHeader = Bearer("tok_alice")
    /\ user = "alice"
    /\ loading = FALSE
    /\ mePending = NULL
    /\ path = "/inference"
    /\ rendered = "InferencePage"
    /\ regError = "" /\ regLoading = FALSE /\ regPending = FALSE /\ regOrphans = 0
    /\ loginError = "" /\ loginLoading = FALSE /\ loginPending = FALSE /\ loginOrphans = 0
    /\ projects = 0 /\ notebooks = FALSE /\ dashLoading = TRUE
    /\ dashPending = "none" /\ dashIdx = 0
    /\ notebook = NULL /\ cells = <<>> /\ saving = FALSE /\ lastSaved = 0
    /\ showOpenModal = FALSE /\ availableFiles = {} /\ loadingFiles = FALSE
    /\ nbLoadPending = FALSE /\ nbLoadOrphans = 0 /\ savePending = 0
    /\ listPending = 0 /\ filePending = {} /\ putLens = <<>>
    /\ cellRunning = <<>> /\ cellOutput = <<>> /\ cellEditMode = <<>> /\ runs = <<>>
    /\ started = 0
    /\ ChatInitial /\ EvalInitial
    /\ infModels = <<>> /\ infSelected = "" /\ infLoading = TRUE /\ infError = ""
    /\ infMaxTokens = 512 /\ infPending = TRUE
    /\ sent = {}
    /\ ev = [op |-> "dashboardNavigate"]

NextInf ==
    \/ \E c \in InfCatalogs : LoadModelsOk(c)
    \/ \E d \in InfDetails : LoadModelsFail(d)
    \/ \E m \in InfModelPool : InfSelectModel(m.path)
    \/ \E v \in MaxTokenChoices : setMaxTokens(v)

\* SpecInf: the inference page from its mount on
SpecInf == InitInf /\ [][NextInf]_vars

\* ---------------------------------------------------------------- EvalPage
\* response.data.benchmarks of GET /eval/benchmarks
EvalBenchmarkCatalogs == {<<"arc", "mmlu">>}

\* response.data.models of GET /eval/models, as ids
EvalModelCatalogs == {<<>>, <<"base_d12", "sft_d12">>}

\* the status field of a task snapshot
Statuses == {"running", "completed", "failed"}

Includes(seq, x) == \E i \in 1..Len(seq) : seq[i] = x

\* prev.filter(id => id !== benchmarkId)
FilterOut(prev, benchmarkId) ==
    LET keep(id) == id # benchmarkId IN SelectSeq(prev, keep)

\* prev.map(t => t.task_id === taskId ? task : t); the snapshot of the server
\* carries the ids the task was started with, and the status and the progress
\* it reports
MapTask(prev, taskId, status, progress) ==
    [i \in 1..Len(prev) |->
        IF prev[i].task_id = taskId
        THEN [prev[i] EXCEPT !.status = status, !.progress = progress]
        ELSE prev[i]]

\* prev.filter(t => t.task_id !== taskId)
FilterTask(prev, taskId) ==
    LET keep(t) == t.task_id # taskId IN SelectSeq(prev, keep)

\* loadBenchmarks, after the response
LoadBenchmarksOk(catalog) ==
    /\ rendered = "EvalPage" /\ "benchmarks" \in catalogPending
    /\ catalogPending' = catalogPending \ {"benchmarks"}
    /\ evalBenchmarks' = catalog
    /\ UNCHANGED <<evalModels, evalResults, selectedBenchmarks, evalSelected, evalLoading,
                   runningTasks, runPending, intervals, polls, resultsPending, issued,
                   finished>>
    /\ UNCHANGED <<serverProgress, pollProgress>>
    /\ UNCHANGED <<authVars, routeVars, regVars, loginVars, dashVars, nbVars, cellVars,
                   chatVars, infVars>>
    /\ sent' = {}
    /\ ev' = [op |-> "loadBenchmarksOk"]

\* loadModels, after the response
LoadEvalModelsOk(catalog) ==
    /\ rendered = "EvalPage" /\ "models" \in catalogPending
    /\ catalogPending' = catalogPending \ {"models"}
    /\ evalModels' = catalog
    /\ evalSelected' = IF Len(catalog) > 0 THEN catalog[1] ELSE evalSelected
    /\ evalLoading' = FALSE
    /\ UNCHANGED <<evalBenchmarks, evalResults, selectedBenchmarks, runningTasks,
                   runPending, intervals, polls, resultsPending, issued, finished>>
    /\ UNCHANGED <<serverProgress, pollProgress>>
    /\ UNCHANGED <<authVars, routeVars, regVars, loginVars, dashVars, nbVars, cellVars,
                   chatVars, infVars>>
    /\ sent' = {}
    /\ ev' = [op |-> "loadModelsOk"]

\* loadBenchmarks or loadModels, when the request fails
LoadCatalogFail(which) ==
    /\ rendered = "EvalPage" /\ which \in catalogPending
    /\ catalogPending' = catalogPending \ {which}
    /\ evalLoading' = IF which = "models" THEN FALSE ELSE evalLoading
    /\ UNCHANGED <<evalBenchmarks, evalModels, evalResults, selectedBenchmarks,
                   evalSelected, runningTasks, runPending, intervals, polls,
                   resultsPending, issued, finished>>
    /\ UNCHANGED <<serverProgress, pollProgress>>
    /\ UNCHANGED <<authVars, routeVars, regVars, loginVars, dashVars, nbVars, cellVars,
                   chatVars, infVars>>
    /\ sent' = {}
    /\ ev' = [op |-> "loadCatalogFail", which |-> which]

\* loadResults, after the response: active ++ cached, here the finished tasks
LoadResultsOk ==
    /\ rendered = "EvalPage" /\ resultsPending > 0
    /\ resultsPending' = resultsPending - 1
    /\ evalResults' = finished
    /\ UNCHANGED <<evalBenchmarks, evalModels, selectedBenchmarks, evalSelected,
                   evalLoading, runningTasks, catalogPending, runPending, intervals,
                   polls, issued, finished>>
    /\ UNCHANGED <<serverProgress, pollProgress>>
    /\ UNCHANGED <<authVars, routeVars, regVars, loginVars, dashVars, nbVars, cellVars,
                   chatVars, infVars>>
    /\ sent' = {}
    /\ ev' = [op |-> "loadResultsOk"]

\* loadResults, when the request fails
LoadResultsFail ==
    /\ rendered = "EvalPage" /\ resultsPending > 0
    /\ resultsPending' = resultsPending - 1
    /\ UNCHANGED <<evalBenchmarks, evalModels, evalResults, selectedBenchmarks,
                   evalSelected, evalLoading, runningTasks, catalogPending, runPending,
                   intervals, polls, issued, finished>>
    /\ UNCHANGED <<serverProgress, pollProgress>>
    /\ UNCHANGED <<authVars, routeVars, regVars, loginVars, dashVars, nbVars, cellVars,
                   chatVars, infVars>>
    /\ sent' = {}
    /\ ev' = [op |-> "loadResultsFail"]

\* a checkbox handler that appends whatever the selection holds
toggleBenchmark_append(benchmarkId) ==
    /\ rendered = "EvalPage"
    /\ Includes(evalBenchmarks, benchmarkId)
    /\ selectedBenchmarks' = Append(selectedBenchmarks, benchmarkId)
    /\ UNCHANGED <<evalBenchmarks, evalModels, evalResults, evalSelected, evalLoading,
                   runningTasks, catalogPending, runPending, intervals, polls,
                   resultsPending, issued, finished>>
    /\ UNCHANGED <<serverProgress, pollProgress>>
    /\ UNCHANGED <<authVars, routeVars, regVars, loginVars, dashVars, nbVars, cellVars,
                   chatVars, infVars>>
    /\ sent' = {}
    /\ ev' = [op |-> "toggleBenchmark", id |-> benchmarkId]

\* toggleBenchmark: the onChange of the checkbox of a listed benchmark
toggleBenchmark(benchmarkId) ==
    /\ rendered = "EvalPage"
    /\ Includes(evalBenchmarks, benchmarkId)
    /\ selectedBenchmarks' =
          IF Includes(selectedBenchmarks, benchmarkId)
          THEN FilterOut(selectedBenchmarks, benchmarkId)
          ELSE Append(selectedBenchmarks, benchmarkId)
    /\ UNCHANGED <<evalBenchmarks, evalModels, evalResults, evalSelected, evalLoading,
                   runningTasks, catalogPending, runPending, intervals, polls,
                   resultsPending, issued, finished>>
    /\ UNCHANGED <<serverProgress, pollProgress>>
    /\ UNCHANGED <<authVars, routeVars, regVars, loginVars, dashVars, nbVars, cellVars,
                   chatVars, infVars>>
    /\ sent' = {}
    /\ ev' = [op |-> "toggleBenchmark", id |-> benchmarkId]

\* the model select's onChange, disabled while loading
EvalSelectModel(id) ==
    /\ rendered = "EvalPage" /\ ~evalLoading
    /\ Includes(evalModels, id)
    /\ id # evalSelected
    /\ evalSelected' = id
    /\ UNCHANGED <<evalBenchmarks, evalModels, evalResults, selectedBenchmarks,
                   evalLoading, runningTasks, catalogPending, runPending, intervals,
                   polls, resultsPending, issued, finished>>
    /\ UNCHANGED <<serverProgress, pollProgress>>
    /\ UNCHANGED <<authVars, routeVars, regVars, loginVars, dashVars, nbVars, cellVars,
                   chatVars, infVars>>
    /\ sent' = {}
    /\ ev' = [op |-> "selectModel", id |-> id]

\* runEvaluation up to its await: the Run Evaluation button is always enabled
runEvaluation ==
    /\ rendered = "EvalPage"
    /\ IF Len(selectedBenchmarks) = 0 \/ Falsy(evalSelected)
       THEN /\ UNCHANGED runPending
            /\ sent' = {}
            /\ ev' = [op |-> "runEvaluation", refused |-> TRUE]
       ELSE /\ issued + Len(runPending) < MaxTasks
            /\ runPending' = Append(runPending, [model_id |-> evalSelected,
                                                 benchmarks |-> selectedBenchmarks,
                                                 use_cached |-> TRUE])
            /\ sent' = {Req("POST /eval/run", authHeader, token, user)}
            /\ ev' = [op |-> "runEvaluation", refused |-> FALSE]
    /\ UNCHANGED <<evalBenchmarks, evalModels, evalResults, selectedBenchmarks,
                   evalSelected, evalLoading, runningTasks, catalogPending, intervals,
                   polls, resultsPending, issued, finished>>
    /\ UNCHANGED <<serverProgress, pollProgress>>
    /\ UNCHANGED <<authVars, routeVars, regVars, loginVars, dashVars, nbVars, cellVars,
                   chatVars, infVars>>

\* runEvaluation after the response: the task is listed with the model and the
\* benchmarks of the call, and pollTaskStatus sets its interval
EvalRunOk(k) ==
    /\ rendered = "EvalPage" /\ k \in 1..Len(runPending)
    /\ LET taskId == issued + 1
       IN  /\ issued' = taskId
           /\ runningTasks' = Append(runningTasks,
                                     [task_id |-> taskId,
                                      model_id |-> runPending[k].model_id,
                                      benchmarks |-> runPending[k].benchmarks,
                                      status |-> "running",
                                      progress |-> 0])
           /\ intervals' = intervals \cup {taskId}
           /\ ev' = [op |-> "runOk", task |-> taskId]
    /\ runPending' = Drop(runPending, k)
    /\ UNCHANGED <<evalBenchmarks, evalModels, evalResults, selectedBenchmarks,
                   evalSelected, evalLoading, catalogPending, polls, resultsPending,
                   finished>>
    /\ serverProgress' = Append(serverProgress, 0)
    /\ UNCHANGED pollProgress
    /\ UNCHANGED <<authVars, routeVars, regVars, loginVars, dashVars, nbVars, cellVars,
                   chatVars, infVars>>
    /\ sent' = {}

\* runEvaluation when the request fails
EvalRunFail(k) ==
    /\ rendered = "EvalPage" /\ k \in 1..Len(runPending)
    /\ runPending' = Drop(runPending, k)
    /\ UNCHANGED <<evalBenchmarks, evalModels, evalResults, selectedBenchmarks,
                   evalSelected, evalLoading, runningTasks, catalogPending, intervals,
                   polls, resultsPending, issued, finished>>
    /\ UNCHANGED <<serverProgress, pollProgress>>
    /\ UNCHANGED <<authVars, routeVars, regVars, loginVars, dashVars, nbVars, cellVars,
                   chatVars, infVars>>
    /\ sent' = {}
    /\ ev' = [op |-> "runFail"]

\* the interval callback of a task up to its await: a tick does not wait for
\* the response of the tick before
PollTick(taskId) ==
    /\ rendered = "EvalPage" /\ taskId \in intervals
    /\ Len(polls) < MaxPolls
    /\ polls' = Append(polls, taskId)
    /\ UNCHANGED <<evalBenchmarks, evalModels, evalResults, selectedBenchmarks,
                   evalSelected, evalLoading, runningTasks, catalogPending, runPending,
                   intervals, resultsPending, issued, finished>>
    /\ pollProgress' = Append(pollProgress, serverProgress[taskId])
    /\ UNCHANGED serverProgress
    /\ UNCHANGED <<authVars, routeVars, regVars, loginVars, dashVars, nbVars, cellVars,
                   chatVars, infVars>>
    /\ sent' = {Req("GET /eval/status/{id}", authHeader, token, user)}
    /\ ev' = [op |-> "pollTick", task |-> taskId]

\* an interval callback that leaves the interval set when the task has ended
PollOk_noClear(k, status) ==
    /\ rendered = "EvalPage" /\ k \in 1..Len(polls)
    /\ polls' = Drop(polls, k)
    /\ IF status \in {"completed", "failed"}
       THEN /\ runningTasks' = FilterTask(MapTask(runningTasks, polls[k], status, pollProgress[k]),
                                       polls[k])
            /\ resultsPending' = resultsPending + 1
            /\ finished' = finished \cup {polls[k]}
            /\ sent' = {Req("GET /eval/results", authHeader, token, user)}
       ELSE /\ runningTasks' = MapTask(runningTasks, polls[k], status, pollProgress[k])
            /\ UNCHANGED <<resultsPending, finished>>
            /\ sent' = {}
    /\ UNCHANGED <<evalBenchmarks, evalModels, evalResults, selectedBenchmarks,
                   evalSelected, evalLoading, catalogPending, runPending, intervals, issued>>
    /\ pollProgress' = Drop(pollProgress, k)
    /\ UNCHANGED serverProgress
    /\ UNCHANGED <<authVars, routeVars, regVars, loginVars, dashVars, nbVars, cellVars,
                   chatVars, infVars>>
    /\ ev' = [op |-> "pollOk", task |-> polls[k], status |-> status]

\* the interval callback after the response of its status request
PollOk(k, status) ==
    /\ rendered = "EvalPage" /\ k \in 1..Len(polls)
    /\ polls' = Drop(polls, k)
    /\ IF status \in {"completed", "failed"}
       THEN /\ intervals' = intervals \ {polls[k]}
            /\ runningTasks' = FilterTask(MapTask(runningTasks, polls[k], status, pollProgress[k]),
                                       polls[k])
            /\ resultsPending' = resultsPending + 1
            /\ finished' = finished \cup {polls[k]}
            /\ sent' = {Req("GET /eval/results", authHeader, token, user)}
       ELSE /\ runningTasks' = MapTask(runningTasks, polls[k], status, pollProgress[k])
            /\ UNCHANGED <<intervals, resultsPending, finished>>
            /\ sent' = {}
    /\ UNCHANGED <<evalBenchmarks, evalModels, evalResults, selectedBenchmarks,
                   evalSelected, evalLoading, catalogPending, runPending, issued>>
    /\ pollProgress' = Drop(pollProgress, k)
    /\ UNCHANGED serverProgress
    /\ UNCHANGED <<authVars, routeVars, regVars, loginVars, dashVars, nbVars, cellVars,
                   chatVars, infVars>>
    /\ ev' = [op |-> "pollOk", task |-> polls[k], status |-> status]

\* the interval callback when its status request fails
PollFail(k) ==
    /\ rendered = "EvalPage" /\ k \in 1..Len(polls)
    /\ polls' = Drop(polls, k)
    /\ intervals' = intervals \ {polls[k]}
    /\ UNCHANGED <<evalBenchmarks, evalModels, evalResults, selectedBenchmarks,
                   evalSelected, evalLoading, runningTasks, catalogPending, runPending,
                   resultsPending, issued, finished>>
    /\ pollProgress' = Drop(pollProgress, k)
    /\ UNCHANGED serverProgress
    /\ UNCHANGED <<authVars, routeVars, regVars, loginVars, dashVars, nbVars, cellVars,
                   chatVars, infVars>>
    /\ sent' = {}
    /\ ev' = [op |-> "pollFail", task |-> polls[k]]

\* the backend works on a task: its progress grows
ServerAdvance(taskId) ==
    /\ rendered = "EvalPage" /\ taskId \in 1..issued
    /\ serverProgress[taskId] < MaxProgress
    /\ serverProgress' = [serverProgress EXCEPT ![taskId] = serverProgress[taskId] + 1]
    /\ UNCHANGED <<evalBenchmarks, evalModels, evalResults, selectedBenchmarks,
                   evalSelected, evalLoading, runningTasks, catalogPending, runPending,
                   intervals, polls, resultsPending, issued, finished, pollProgress>>
    /\ UNCHANGED <<authVars, routeVars, regVars, loginVars, dashVars, nbVars, cellVars,
                   chatVars, infVars>>
    /\ sent' = {}
    /\ ev' = [op |-> "serverAdvance", task |-> taskId]

\* EvalPage mounted for a logged-in user, its mount effect having issued its
\* three requests
InitEval ==
    /\ token = "tok_alice"
    /\ authHeader = Bearer("tok_alice")
    /\ user = "alice"
    /\ loading = FALSE
    /\ mePending = NULL
    /\ path = "/eval"
    /\ rendered = "EvalPage"
    /\ regError = "" /\ regLoading = FALSE /\ regPending = FALSE /\ regOrphans = 0
    /\ loginError = "" /\ loginLoading = FALSE /\ loginPending = FALSE /\ loginOrphans = 0
    /\ projects = 0 /\ notebooks = FALSE /\ dashLoading = TRUE
    /\ dashPending = "none" /\ dashIdx = 0
    /\ notebook = NULL /\ cells = <<>> /\ saving = FALSE /\ lastSaved = 0
    /\ showOpenModal = FALSE /\ availableFiles = {} /\ loadingFiles = FALSE
    /\ nbLoadPending = FALSE /\ nbLoadOrphans = 0 /\ savePending = 0
    /\ listPending = 0 /\ filePending = {} /\ putLens = <<>>
    /\ cellRunning = <<>> /\ cellOutput = <<>> /\ cellEditMode = <<>> /\ runs = <<>>
    /\ started = 0
    /\ ChatInitial /\ InfInitial
    /\ evalBenchmarks = <<>> /\ evalModels = <<>> /\ evalResults = {}
    /\ selectedBenchmarks = <<>> /\ evalSelected = "" /\ evalLoading = TRUE
    /\ runningTasks = <<>> /\ catalogPending = {"benchmarks", "models"}
    /\ runPending = <<>> /\ intervals = {} /\ polls = <<>> /\ resultsPending = 1
    /\ issued = 0 /\ finished = {} /\ serverProgress = <<>> /\ pollProgress = <<>>
    /\ sent = {}
    /\ ev = [op |-> "dashboardNavigate"]

NextEval ==
    \/ \E c \in EvalBenchmarkCatalogs : LoadBenchmarksOk(c)
    \/ \E c \in EvalModelCatalogs : LoadEvalModelsOk(c)
    \/ \E which \in {"benchmarks", "models"} : LoadCatalogFail(which)
    \/ LoadResultsOk
    \/ LoadResultsFail
    \/ \E c \in EvalBenchmarkCatalogs : \E i \in 1..Len(c) : toggleBenchmark(c[i])
    \/ \E c \in EvalModelCatalogs : \E i \in 1..Len(c) : EvalSelectModel(c[i])
    \/ runEvaluation
    \/ \E k \in 1..Len(runPending) : EvalRunOk(k)
    \/ \E k \in 1..Len(runPending) : EvalRunFail(k)
    \/ \E t \in intervals : PollTick(t)
    \/ \E k \in 1..Len(polls) : \E st \in Statuses : PollOk(k, st)
    \/ \E k \in 1..Len(polls) : PollFail(k)

\* SpecEval: the evaluation page from its mount on
SpecEval == InitEval /\ [][NextEval]_vars

NextProgress ==
    \/ \E c \in EvalBenchmarkCatalogs : LoadBenchmarksOk(c)
    \/ \E c \in EvalModelCatalogs : LoadEvalModelsOk(c)
    \/ \E c \in EvalBenchmarkCatalogs : \E i \in 1..Len(c) : toggleBenchmark(c[i])
    \/ runEvaluation
    \/ \E k \in 1..Len(runPending) : EvalRunOk(k)
    \/ \E t \in 1..issued : ServerAdvance(t)
    \/ \E t \in intervals : PollTick(t)
    \/ \E k \in 1..Len(polls) : \E st \in Statuses : PollOk(k, st)

\* SpecProgress: the evaluation page while the backend works on the tasks
SpecProgress == InitEval /\ [][NextProgress]_vars

\* ---------------------------------------------------------------- CodeCell
\* a frame of the /api/execute/stream response: data: {type, text, return_code}
Frame(t, x, rc) == [type |-> t, text |-> x, return_code |-> rc]

\* the frame sequences the execution service may stream for a run
Streams ==
    { <<Frame("stdout", "2", 0), Frame("done", "", 0)>>,
      <<Frame("error", "boom", 0), Frame("done", "", 1)>> }

\* messages of a rejected fetch or read other than an abort
ErrorMessages == {"Failed to fetch"}

\* what handleRun adds to fullOutput for one parsed frame
FrameText(f) ==
    IF f.type \in {"stdout", "stderr"} THEN f.text
    ELSE IF f.type = "error" THEN "\nError: " \o f.text
    ELSE IF f.type = "done" /\ f.return_code # 0
    THEN "\n[Exit code: " \o ToString(f.return_code) \o "]"
    ELSE ""

StoppedMarker == "\n[Execution stopped by user]"

\* the CodeCell children after NotebookPage rendered the cell list cs: the
\* children are keyed by index, so the instance at an index that still
\* exists keeps its state whatever cell it now shows, an instance beyond
\* the end of the list is unmounted, and a new index mounts a fresh
\* instance whose output starts as cell.output || ''
Remount(old, cs, fresh) ==
    [i \in 1..Len(cs) |-> IF i <= Len(old) THEN old[i] ELSE fresh[i]]

RunsAfter(rs, cs) ==
    [k \in 1..Len(rs) |->
        [rs[k] EXCEPT !.mounted = rs[k].mounted /\ rs[k].index <= Len(cs)]]

CellsRendered ==
    /\ cellOutput' = Remount(cellOutput, cells',
                             [i \in 1..Len(cells') |-> Or(cells'[i].output, "")])
    /\ cellRunning' = Remount(cellRunning, cells', [i \in 1..Len(cells') |-> FALSE])
    /\ cellEditMode' = Remount(cellEditMode, cells', [i \in 1..Len(cells') |-> FALSE])
    /\ runs' = RunsAfter(runs, cells')
    /\ UNCHANGED started

\* the Edit / Preview buttons of a markdown cell
ToggleEdit(index) ==
    /\ rendered = "NotebookPage"
    /\ index \in 1..Len(cells)
    /\ cells[index].type = "markdown"
    /\ cellEditMode' = [cellEditMode EXCEPT ![index] = ~cellEditMode[index]]
    /\ UNCHANGED <<cellRunning, cellOutput, runs, started>>
    /\ UNCHANGED <<authVars, routeVars, regVars, loginVars, dashVars, nbVars>>
    /\ UNCHANGED pageVars
    /\ sent' = {}
    /\ ev' = [op |-> "toggleEdit", index |-> index]

\* handleRun of a cell whose Run button is rendered in any branch
handleRun_anyCell(index, stream) ==
    /\ rendered = "NotebookPage"
    /\ index \in 1..Len(cells)
    /\ ~cellRunning[index]
    /\ Len(runs) < MaxRuns /\ started < MaxStarted
    /\ started' = started + 1
    /\ cellRunning' = [cellRunning EXCEPT ![index] = TRUE]
    /\ cellOutput' = [cellOutput EXCEPT ![index] = ""]
    /\ runs' = Append(runs, [index |-> index, cell |-> cells[index],
                             cells |-> cells, output |-> cellOutput[index],
                             fullOutput |-> "", arrived |-> "",
                             rest |-> stream, mounted |-> TRUE])
    /\ UNCHANGED cellEditMode
    /\ UNCHANGED <<authVars, routeVars, regVars, loginVars, dashVars, nbVars>>
    /\ UNCHANGED pageVars
    /\ sent' = {Req("POST /execute/stream", Bearer(token), token, user)}
    /\ ev' = [op |-> "handleRun", index |-> index,
              type |-> cells[index].type, code |-> cells[index].content]

\* handleRun up to the awaited fetch: the Run button is rendered by the code
\* branch only, and only while the instance is not running.  stream: what
\* the server is going to answer.  The closure of the call keeps the cell,
\* the output state and (through onChange) the cell list of this render.
handleRun(index, stream) ==
    /\ rendered = "NotebookPage"
    /\ index \in 1..Len(cells)
    /\ cells[index].type # "markdown"
    /\ ~cellRunning[index]
    /\ Len(runs) < MaxRuns /\ started < MaxStarted
    /\ started' = started + 1
    /\ cellRunning' = [cellRunning EXCEPT ![index] = TRUE]
    /\ cellOutput' = [cellOutput EXCEPT ![index] = ""]
    /\ runs' = Append(runs, [index |-> index, cell |-> cells[index],
                             cells |-> cells, output |-> cellOutput[index],
                             fullOutput |-> "", arrived |-> "",
                             rest |-> stream, mounted |-> TRUE])
    /\ UNCHANGED cellEditMode
    /\ UNCHANGED <<authVars, routeVars, regVars, loginVars, dashVars, nbVars>>
    /\ UNCHANGED pageVars
    /\ sent' = {Req("POST /execute/stream", Bearer(token), token, user)}
    /\ ev' = [op |-> "handleRun", index |-> index,
              type |-> cells[index].type, code |-> cells[index].content]

\* updateCell(index, updatedCell) as the closure of an earlier render
\* computes it: from the cell list cs of that render
UpdateCellFrom(cs, index, updatedCell) == [cs EXCEPT ![index] = updatedCell]

\* one parsed frame: fullOutput += ...; setOutput(fullOutput)
RunRead(k) ==
    /\ rendered = "NotebookPage"
    /\ k \in 1..Len(runs)
    /\ runs[k].rest # <<>>
    /\ LET r == runs[k]
           full == r.fullOutput \o FrameText(Head(r.rest))
       IN /\ runs' = [runs EXCEPT ![k] =
                        [r EXCEPT !.fullOutput = full,
                                  !.arrived = r.arrived \o FrameText(Head(r.rest)),
                                  !.rest = Tail(r.rest)]]
          /\ cellOutput' = IF r.mounted /\ FrameText(Head(r.rest)) # ""
                           THEN [cellOutput EXCEPT ![r.index] = full]
                           ELSE cellOutput
          /\ ev' = [op |-> "runRead", index |-> r.index]
    /\ UNCHANGED <<cellRunning, cellEditMode, started>>
    /\ UNCHANGED <<authVars, routeVars, regVars, loginVars, dashVars, nbVars>>
    /\ UNCHANGED pageVars
    /\ sent' = {}

\* a frame whose bytes arrive in two reads: each read is decoded and split
\* on its own; the first piece fails JSON.parse (or is shorter than
\* 'data: '), the second does not start with 'data: ', and nothing is kept
\* from one read to the next
RunReadSplit(k) ==
    /\ rendered = "NotebookPage"
    /\ k \in 1..Len(runs)
    /\ runs[k].rest # <<>>
    /\ FrameText(Head(runs[k].rest)) # ""
    /\ LET r == runs[k]
       IN /\ runs' = [runs EXCEPT ![k] =
                        [r EXCEPT !.arrived = r.arrived \o FrameText(Head(r.rest)),
                                  !.rest = Tail(r.rest)]]
          /\ ev' = [op |-> "runReadSplit", index |-> r.index]
    /\ UNCHANGED <<cellRunning, cellOutput, cellEditMode, started>>
    /\ UNCHANGED <<authVars, routeVars, regVars, loginVars, dashVars, nbVars>>
    /\ UNCHANGED pageVars
    /\ sent' = {}

\* the end of a handleRun call: onChange({ ...cell, output: stored }) with
\* the cell and the cell list of the render the call was started in, the
\* instance's setOutput(shown) and setRunning(false), which do nothing once
\* the instance is unmounted
RunFinish(k, shown, stored) ==
    LET r == runs[k]
        cs == UpdateCellFrom(r.cells, r.index, [r.cell EXCEPT !.output = stored])
        out1 == IF r.mounted THEN [cellOutput EXCEPT ![r.index] = shown] ELSE cellOutput
        run1 == IF r.mounted THEN [cellRunning EXCEPT ![r.index] = FALSE] ELSE cellRunning
    IN /\ cells' = cs
       /\ cellOutput' = Remount(out1, cs, [i \in 1..Len(cs) |-> Or(cs[i].output, "")])
       /\ cellRunning' = Remount(run1, cs, [i \in 1..Len(cs) |-> FALSE])
       /\ cellEditMode' = Remount(cellEditMode, cs, [i \in 1..Len(cs) |-> FALSE])
       /\ runs' = RunsAfter(Drop(runs, k), cs)
       /\ UNCHANGED started
       /\ UNCHANGED <<notebook, saving, lastSaved, showOpenModal, availableFiles,
                      loadingFiles, nbLoadPending, nbLoadOrphans, savePending,
                      listPending, filePending, putLens>>
       /\ UNCHANGED <<authVars, routeVars, regVars, loginVars, dashVars>>
       /\ UNCHANGED pageVars
       /\ sent' = {}

\* reader.read() reported done: onChange({ ...cell, output: fullOutput })
RunEnd(k) ==
    /\ rendered = "NotebookPage"
    /\ k \in 1..Len(runs)
    /\ runs[k].rest = <<>>
    /\ RunFinish(k, IF runs[k].mounted THEN cellOutput[runs[k].index] ELSE "",
                 runs[k].fullOutput)
    /\ ev' = [op |-> "runEnd", index |-> runs[k].index,
              arrived |-> runs[k].arrived, mounted |-> runs[k].mounted]

\* handleStop and the AbortError branch of handleRun's catch, which runs
\* before any other event: abortedOutput = output + '\n[Execution stopped by
\* user]', where output is the state the call's closure holds
handleStop(index) ==
    /\ rendered = "NotebookPage"
    /\ index \in 1..Len(cells)
    /\ cellRunning[index]
    /\ \E k \in 1..Len(runs) :
          /\ runs[k].index = index /\ runs[k].mounted
          /\ RunFinish(k, runs[k].output \o StoppedMarker,
                       runs[k].output \o StoppedMarker)
          /\ ev' = [op |-> "handleStop", index |-> index,
                    streamed |-> runs[k].fullOutput, previous |-> runs[k].output]

\* the other branch of the catch: errorOutput = `Error: ${error.message}`
RunFail(k, message) ==
    /\ rendered = "NotebookPage"
    /\ k \in 1..Len(runs)
    /\ RunFinish(k, "Error: " \o message, "Error: " \o message)
    /\ ev' = [op |-> "runFail", index |-> runs[k].index]

\* the editor of a notebook that has been loaded
RunNotebooks ==
    { <<Cell("code", "x = 1", "1")>>,
      <<Cell("markdown", "# Title", NULL), Cell("code", "x = 1", NULL)>> }

InitRun ==
    /\ token = "tok_alice"
    /\ authHeader = Bearer("tok_alice")
    /\ user = "alice"
    /\ loading = FALSE
    /\ mePending = NULL
    /\ path = "/notebook"
    /\ rendered = "NotebookPage"
    /\ regError = "" /\ regLoading = FALSE /\ regPending = FALSE /\ regOrphans = 0
    /\ loginError = "" /\ loginLoading = FALSE /\ loginPending = FALSE /\ loginOrphans = 0
    /\ projects = 0 /\ notebooks = FALSE /\ dashLoading = TRUE
    /\ dashPending = "none" /\ dashIdx = 0
    /\ notebook = "notebook" /\ cells \in RunNotebooks
    /\ saving = FALSE /\ lastSaved = 0
    /\ showOpenModal = FALSE /\ availableFiles = {} /\ loadingFiles = FALSE
    /\ nbLoadPending = FALSE /\ nbLoadOrphans = 0 /\ savePending = 0
    /\ listPending = 0 /\ filePending = {} /\ putLens = <<>>
    /\ cellRunning = [i \in 1..Len(cells) |-> FALSE]
    /\ cellOutput = [i \in 1..Len(cells) |-> Or(cells[i].output, "")]
    /\ cellEditMode = [i \in 1..Len(cells) |-> FALSE]
    /\ runs = <<>> /\ started = 0
    /\ PagesInitial
    /\ sent = {}
    /\ ev = [op |-> "loadNotebookOk"]

\* the Editor of a markdown cell is rendered in edit mode only
EditorShown(index) == cells[index].type = "markdown" => cellEditMode[index]

NextRun ==
    \/ addCell /\ CellsRendered
    \/ \E i \in 1..Len(cells), c \in BOOLEAN : deleteCell(i, c) /\ CellsRendered
    \/ \E i \in 1..Len(cells), s \in Streams : handleRun(i, s)
    \/ \E k \in 1..Len(runs) : RunRead(k)
    \/ \E k \in 1..Len(runs) : RunReadSplit(k)
    \/ \E k \in 1..Len(runs) : RunEnd(k)
    \/ \E i \in 1..Len(cells) : handleStop(i)
    \/ \E k \in 1..Len(runs), m \in ErrorMessages : RunFail(k, m)

\* SpecRun: running the code cells of a loaded notebook
SpecRun == InitRun /\ [][NextRun]_vars

NextCells ==
    \/ addCell /\ CellsRendered
    \/ \E i \in 1..Len(cells), v \in Contents :
          EditorShown(i) /\ EditCell(i, v) /\ CellsRendered
    \/ \E i \in 1..Len(cells), c \in BOOLEAN : deleteCell(i, c) /\ CellsRendered
    \/ runAllCells /\ CellsRendered
    \/ ClearAll /\ CellsRendered
    \/ \E i \in 1..Len(cells) : ToggleEdit(i)
    \/ \E i \in 1..Len(cells), s \in Streams : handleRun(i, s)
    \/ \E k \in 1..Len(runs) : RunRead(k)
    \/ \E k \in 1..Len(runs) : RunEnd(k)

\* SpecCells: every editing operation on the cells of a loaded notebook,
\* with runs whose frames arrive whole
SpecCells == InitRun /\ [][NextCells]_vars

Next ==
    \/ FetchUserOk
    \/ FetchUserFail
    \/ NavigateEffect
    \/ RegisterMismatch
    \/ RegisterSubmit
    \/ \E u \in Users : RegisterOk(u)
    \/ \E d \in Details : RegisterFail(d)
    \/ \E u \in Users : RegisterOkUnmounted(u)
    \/ \E d \in Details : RegisterFailUnmounted(d)
    \/ RegisterToLogin
    \/ LoginSubmit
    \/ \E u \in Users : LoginOk(u)
    \/ \E d \in Details : LoginFail(d)
    \/ \E u \in Users : LoginOkUnmounted(u)
    \/ \E d \in Details : LoginFailUnmounted(d)
    \/ LoginToRegister
    \/ \E n \in 0..MaxProjects : LoadProjectsOk(n)
    \/ LoadProjectNotebooksOk
    \/ LoadProjectsFail
    \/ Logout
    \/ \E p \in {"/chat", "/eval", "/notebook"} : DashboardNavigate(p)
    \/ \E cs \in ServerCells : LoadNotebookOk(cs)
    \/ LoadNotebookFail
    \/ LoadNotebookFailUnmounted
    \/ LoadNotebookOkUnmounted
    \/ NotebookBack

Spec == Init /\ [][Next]_vars

\* Spec with the scheduling the browser gives: the effect of a rendered
\* <Navigate> runs, and the promise of GET /api/auth/me settles however often
\* a redirect is rendered in between
FairSpec ==
    Spec /\ SF_vars(FetchUserOk \/ FetchUserFail) /\ WF_vars(NavigateEffect)

\* The notebook editor of a logged-in user who opened a notebook from the
\* dashboard: NotebookPage has just been mounted and loadNotebook is waiting.
InitNb ==
    /\ token = "tok_alice"
    /\ authHeader = Bearer("tok_alice")
    /\ user = "alice"
    /\ loading = FALSE
    /\ mePending = NULL
    /\ path = "/notebook"
    /\ rendered = "NotebookPage"
    /\ regError = "" /\ regLoading = FALSE /\ regPending = FALSE /\ regOrphans = 0
    /\ loginError = "" /\ loginLoading = FALSE /\ loginPending = FALSE /\ loginOrphans = 0
    /\ projects = 0 /\ notebooks = FALSE /\ dashLoading = TRUE
    /\ dashPending = "none" /\ dashIdx = 0
    /\ notebook = NULL /\ cells = <<>> /\ saving = FALSE /\ lastSaved = 0
    /\ showOpenModal = FALSE /\ availableFiles = {} /\ loadingFiles = FALSE
    /\ nbLoadPending = TRUE /\ nbLoadOrphans = 0 /\ savePending = 0
    /\ listPending = 0 /\ filePending = {} /\ putLens = <<>>
    /\ cellRunning = <<>> /\ cellOutput = <<>> /\ cellEditMode = <<>> /\ runs = <<>>
    /\ started = 0
    /\ PagesInitial
    /\ sent = {Req("GET /notebooks/{id}", Bearer("tok_alice"), "tok_alice", "alice")}
    /\ ev = [op |-> "dashboardNavigate"]

\* answers of the server, which arrive without the user acting
NbAnswers ==
    \/ \E cs \in ServerCells : LoadNotebookOk(cs)
    \/ LoadNotebookFail
    \/ SaveOk
    \/ SaveFail

NextNb ==
    \/ \E cs \in ServerCells : LoadNotebookOk(cs)
    \/ LoadNotebookFail
    \/ NotebookBack
    \/ saveNotebook
    \/ SaveOk
    \/ SaveFail
    \/ addCell /\ UNCHANGED cellVars
    \/ \E i \in 1..Len(cells), v \in Contents : EditCell(i, v) /\ UNCHANGED cellVars
    \/ \E i \in 1..Len(cells), c \in BOOLEAN : deleteCell(i, c) /\ UNCHANGED cellVars
    \/ runAllCells /\ UNCHANGED cellVars
    \/ ClearAll /\ UNCHANGED cellVars

\* SpecNb: loading, editing and saving a notebook
SpecNb == InitNb /\ [][NextNb]_vars

\* the same with every request answered at some time; the user is free to
\* act or not
FairSpecNb == SpecNb /\ WF_vars(NbAnswers)

NextImport ==
    \/ \E cs \in ServerCells : LoadNotebookOk(cs)
    \/ LoadNotebookFail
    \/ NotebookBack
    \/ addCell /\ UNCHANGED cellVars
    \/ \E i \in 1..Len(cells), v \in Contents : EditCell(i, v) /\ UNCHANGED cellVars
    \/ \E i \in 1..Len(cells), c \in BOOLEAN : deleteCell(i, c) /\ UNCHANGED cellVars
    \/ ClearAll /\ UNCHANGED cellVars
    \/ openFileDialog
    \/ \E files \in FileLists : ListFilesOk(files)
    \/ ListFilesFail
    \/ CloseModal
    \/ \E f \in FileNames : loadIpynbFile(f)
    \/ \E f \in FileNames, c \in BOOLEAN : LoadFileOk(f, c)
    \/ \E f \in FileNames : LoadFileFail(f)

\* SpecImport: loading and editing a notebook and importing a file into it
SpecImport == InitNb /\ [][NextImport]_vars

\* ================================================================== claims
ProtectedPages == {"Dashboard", "NotebookPage", "ChatPage", "EvalPage"}

ProtectedPaths == {"/dashboard", "/notebook", "/chat", "/eval"}

\* C1: a protected page is rendered only while user is non-null, and at a
\* protected path without a user the router renders the redirect to /login;
\* Login and Register are rendered only while user is null, and at their
\* paths with a user the router renders the redirect to /dashboard.
C1_RouteGuards ==
    /\ rendered \in ProtectedPages => user # NULL
    /\ (path \in ProtectedPaths /\ user = NULL) => rendered = "NavigateLogin"
    /\ rendered \in {"Login", "Register"} => user = NULL
    /\ (path \in {"/login", "/register"} /\ user # NULL) => rendered = "NavigateDashboard"

\* a user who logged out on the dashboard is being redirected to /login
C1_Witness ==
    /\ ev.op = "logout"
    /\ path = "/dashboard" /\ user = NULL /\ rendered = "NavigateLogin"

\* endpoints that take no bearer token
OpenEndpoints == {"POST /auth/register", "POST /auth/login"}

\* C2: every request issued while a user is logged in, except those to
\* /auth/register and /auth/login, carries the Authorization header Bearer
\* plus the token held in local storage.
C2_BearerOnEveryRequest ==
    \A r \in sent :
        (r.loggedIn /\ r.ep \notin OpenEndpoints) =>
            (r.stored # NULL /\ r.auth = Bearer(r.stored))

\* C3: right after a register or login call succeeded, local storage holds
\* the returned access_token, the default Authorization header is Bearer
\* plus that token, user is the returned record, and the location is
\* /dashboard with the dashboard rendered.
C3_SessionStored ==
    ev.op \in {"registerOk", "loginOk"} =>
        /\ token = ev.tok
        /\ authHeader = Bearer(ev.tok)
        /\ user = ev.usr
        /\ path = "/dashboard" /\ rendered = "Dashboard"

C3_Witness ==
    /\ ev.op = "registerOk" /\ ev.tok = "tok_bob"
    /\ token = "tok_bob" /\ user = "bob" /\ path = "/dashboard"

\* C4: a failed register or login request leaves the stored token, the
\* default header, user and the location unchanged; a mounted Register page
\* then shows the server's detail, or 'Registration failed' without one, and
\* its loading flag is false.
C4_FailedAuthStep ==
    ev'.op \in {"registerFail", "loginFail"} =>
        /\ token' = token /\ authHeader' = authHeader /\ user' = user
        /\ path' = path /\ rendered' = rendered

C4_RegisterShowsError ==
    (ev.op = "registerFail" /\ ev.mounted) =>
        /\ rendered = "Register"
        /\ regError = (IF ev.detail # NULL THEN ev.detail ELSE "Registration failed")
        /\ regLoading = FALSE

C4_FailedAuth == [][C4_FailedAuthStep]_vars /\ []C4_RegisterShowsError

C4_Witness ==
    /\ ev.op = "registerFail" /\ ev.mounted /\ ev.detail = NULL
    /\ regError = "Registration failed" /\ ~regLoading /\ user = NULL

\* C5: right after logout no token is stored, the default header is gone
\* and user is null, and the dashboard the user was on is replaced by the
\* redirect to /login; a logout call in a logged-out session changes none of
\* the three.
C5_LoggedOut ==
    ev.op = "logout" =>
        /\ token = NULL /\ authHeader = NoHeader /\ user = NULL
        /\ rendered = "NavigateLogin"

C5_SecondLogoutStep ==
    (ev'.op \in {"logout", "fetchUserFail"}
        /\ token = NULL /\ authHeader = NoHeader /\ user = NULL) =>
            (token' = token /\ authHeader' = authHeader /\ user' = user)

C5_Logout == []C5_LoggedOut /\ [][C5_SecondLogoutStep]_vars

\* fetchUser's failure calls logout() in a session the user already logged
\* out of
C5_Witness ==
    /\ ev.op = "fetchUserFail" /\ ev.again
    /\ token = NULL /\ authHeader = NoHeader /\ user = NULL

\* the step taken last changed the cell list of the mounted editor, and the
\* editor may still start a save request
Edited ==
    /\ rendered = "NotebookPage"
    /\ Len(putLens) < MaxSaves
    /\ \/ ev.op \in {"addCell", "editCell"}
       \/ (ev.op = "clearAll" /\ ev.changed)
       \/ (ev.op = "deleteCell" /\ ev.asked /\ ev.confirmed)

\* the editor of a notebook whose only cell is the one the user just added
OneNewCell == <<Cell("code", "", NULL)>>

\* C6: the platform auto-saves: after an edit of the cell list (here: one
\* that leaves the single new cell), and unless the user edits again or
\* leaves the editor, a PUT /notebooks/{id} with the editor's cells is sent
\* at some time, also when the user never clicks Save.
C6_AutoSave ==
    (Edited /\ cells = OneNewCell)
        ~> \/ (ev.op = "saveNotebook" /\ ev.body = PutBody(OneNewCell))
           \/ cells # OneNewCell
           \/ rendered # "NotebookPage"

\* C7: deleteCell on a list of one cell leaves the list as it is; on a
\* longer list it removes the cell at the index and keeps the others in
\* their order when the user confirms, and leaves the list as it is when the
\* user declines; a non-empty list stays non-empty.
C7_DeleteStep ==
    ev'.op = "deleteCell" =>
        /\ IF Len(cells) > 1 /\ ev'.confirmed
           THEN /\ Len(cells') = Len(cells) - 1
                /\ \A j \in 1..Len(cells') :
                      cells'[j] = cells[IF j < ev'.index THEN j ELSE j + 1]
           ELSE cells' = cells
        /\ Len(cells) > 0 => Len(cells') > 0

C8_SaveBody ==
    ev.op = "saveNotebook" =>
        /\ Len(ev.body) = Len(cells)
        /\ \A i \in 1..Len(cells) :
              /\ ev.body[i].type = cells[i].type
              /\ ev.body[i].content = cells[i].content
              /\ ev.body[i].output = (IF cells[i].output = "" THEN NULL ELSE cells[i].output)

\* a one-cell save after a two-cell save
C8_Witness ==
    /\ ev.op = "saveNotebook" /\ putLens = <<2, 1>>
    /\ Len(ev.body) = 1

\* C9: lastSaved of a mounted editor changes only in the step that handles
\* an accepted save; after either outcome saving is false; while saving is
\* true no save request is started.
C9_SaveStep ==
    /\ (rendered' = "NotebookPage" /\ lastSaved' # lastSaved) => ev'.op = "saveOk"
    /\ ev'.op = "saveFail" => lastSaved' = lastSaved
    /\ saving => ev'.op # "saveNotebook"

C9_SaveDone == ev.op \in {"saveOk", "saveFail"} => ~saving

C9_Save == [][C9_SaveStep]_vars /\ []C9_SaveDone

\* a save failed after an earlier one was accepted
C9_Witness ==
    /\ ev.op = "saveFail" /\ lastSaved = 1 /\ Len(putLens) = 2 /\ ~saving

\* C10: a confirmed import makes the cell list the loaded document's cells,
\* in number, order, type and source text; a declined or failed one leaves
\* the cell list and the modal as they are.
C10_ImportStep ==
    /\ (ev'.op = "loadFileOk" /\ ev'.confirmed) =>
          LET doc == IpynbCells(ev'.file) IN
          /\ Len(cells') = Len(doc)
          /\ \A i \in 1..Len(doc) :
                /\ cells'[i].content = doc[i].code
                /\ doc[i].type # NULL => cells'[i].type = doc[i].type
    /\ ((ev'.op = "loadFileOk" /\ ~ev'.confirmed) \/ ev'.op = "loadFileFail") =>
          /\ cells' = cells
          /\ showOpenModal' = showOpenModal

C10_Import == [][C10_ImportStep]_vars

\* the two cells of the tutorial replaced the one cell the editor held
C10_Witness ==
    /\ ev.op = "loadFileOk" /\ ev.confirmed /\ ev.file = "tutorial.ipynb"
    /\ ev.had = 1 /\ Len(cells) = 2 /\ cells[1].type = "markdown"

\* C11: a request to /execute/stream is issued by handleRun only, for a cell
\* that is not of type markdown, with that cell's content as its code.
C11_RunStep ==
    (\E r \in sent' : r.ep = "POST /execute/stream") =>
        /\ ev'.op = "handleRun"
        /\ ev'.index \in 1..Len(cells)
        /\ cells[ev'.index].type # "markdown"
        /\ ev'.code = cells[ev'.index].content

C12_RunOutput ==
    ev.op = "runEnd" =>
        /\ cells[ev.index].output = ev.arrived
        /\ cellOutput[ev.index] = ev.arrived

\* C13: after the user stopped a run the cell is not running, and the
\* output displayed and stored is what this run streamed so far followed by
\* the marker '[Execution stopped by user]'.
C13_StopOutput ==
    ev.op = "handleStop" =>
        /\ ~cellRunning[ev.index]
        /\ cellOutput[ev.index] = ev.streamed \o StoppedMarker
        /\ cells[ev.index].output = ev.streamed \o StoppedMarker

\* C14: when a stream that carried deltas and the [DONE] sentinel ends, and
\* no other handler touched the conversation meanwhile, the last message is
\* the assistant message whose content is the concatenation of the delta
\* contents, however the bytes were split into reads, and isGenerating is
\* false; the messages array of a send is the message list followed by the
\* new user message.
C14_Reassembled ==
    (ev.op = "chatEnd" /\ ev.alone /\ ev.sentinel) =>
        /\ messages # <<>>
        /\ Last(messages) = [role |-> "assistant", content |-> ev.deltas]
        /\ ~isGenerating

C14_SendStep ==
    ev'.op = "sendMessage" =>
        ev'.body = Append(messages, [role |-> "user", content |-> Trim(input)])

C14_ChatStream == []C14_Reassembled /\ [][C14_SendStep]_vars

\* the second turn of a conversation ended, after reads that cut a line
C14_Witness ==
    /\ ev.op = "chatEnd" /\ ev.alone /\ ev.sentinel /\ ev.cut
    /\ Len(messages) = 4
    /\ messages[2] = [role |-> "assistant", content |-> "Hey"]
    /\ messages[3] = [role |-> "user", content |-> "hi"]
    /\ messages[4] = [role |-> "assistant", content |-> "Hey"]

\* C15: after a streaming failure of the chat page (response not ok,
\* network error, or an error frame in the stream) the assistant
\* placeholder is gone and the list ends with the user's message.
C15_PlaceholderRemoved ==
    ((ev.op = "chatFail" \/ (ev.op = "chatEnd" /\ ev.sawError)) /\ ev.alone) =>
        /\ messages # <<>>
        /\ Last(messages).role = "user"

\* C16: after clearChat the message list is empty, and no state update of
\* the page throws, also when a delta of a running stream arrives later.
C16_ClearSafe ==
    /\ ev.op = "clearChat" => messages = <<>>
    /\ ~chatBroken

\* C17: after the inference page loads a non-empty catalog, the selected model
\* is an sft model whose step is at least the step of every sft model of the
\* catalog, or the first entry when the catalog has no sft model; with an
\* empty catalog nothing is selected and an error message is set.
C17_DefaultSelection ==
    ev.op = "loadModelsOk" =>
        LET c == ev.catalog
            sft == {i \in 1..Len(c) : c[i].type = "sft"}
        IN  IF c = <<>> THEN infSelected = "" /\ infError # ""
            ELSE IF sft # {}
            THEN \E i \in sft : /\ c[i].path = infSelected
                                /\ \A j \in sft : c[i].step >= c[j].step
            ELSE infSelected = c[1].path

C17_Witness ==
    /\ ev.op = "loadModelsOk"
    /\ Len(ev.catalog) = 3
    /\ ev.catalog[1].type = "base" /\ ev.catalog[2].path = "sft/d12_500"
    /\ ev.catalog[3].path = "sft/d12_2000"
    /\ infSelected = "sft/d12_2000"

\* C18: on a host that has not answered 503 to /inference/chat, with a model
\* selected, the input controls of the inference page are enabled so that a
\* message can be sent.
C18_SendAvailable ==
    (rendered = "InferencePage" /\ ~infLoading /\ infSelected # ""
        /\ infError # Unsupported503)
    => ~InfInputDisabled /\ ~InfSendDisabled

\* C19: the eval page issues POST /eval/run only when a model and at least
\* one benchmark are selected; the benchmarks it sends are the current
\* selection and hold no id twice, whatever checkboxes were toggled; with an
\* empty selection nothing is sent and the running-tasks list is unchanged.
C19_RunStep ==
    /\ (\E r \in sent' : r.ep = "POST /eval/run") =>
          /\ ev'.op = "runEvaluation"
          /\ evalSelected # "" /\ selectedBenchmarks # <<>>
          /\ runPending' = Append(runPending, Last(runPending'))
          /\ Last(runPending').model_id = evalSelected
          /\ Last(runPending').benchmarks = selectedBenchmarks
          /\ \A i, j \in 1..Len(selectedBenchmarks) :
                i # j => selectedBenchmarks[i] # selectedBenchmarks[j]
    /\ (ev'.op = "runEvaluation" /\ selectedBenchmarks = <<>>) =>
          /\ sent' = {}
          /\ runPending' = runPending
          /\ runningTasks' = runningTasks

C19_RunSelection == [][C19_RunStep]_vars

C19_Witness ==
    /\ ev.op = "runEvaluation" /\ ~ev.refused
    /\ runPending # <<>>
    /\ Last(runPending).benchmarks = <<"mmlu", "arc">>
    /\ Last(runPending).model_id = "sft_d12"
    /\ \E r \in sent : r.ep = "POST /eval/run"

\* C20: once a status poll of a task returned completed or failed, no
\* further status request is started for the task, the task is not in the
\* running-tasks list and never comes back, also when the response of an
\* earlier poll arrives afterwards; the step that handles the final status
\* requests the results list again.
C20_Gone ==
    \A t \in finished :
        /\ t \notin intervals
        /\ \A i \in 1..Len(runningTasks) : runningTasks[i].task_id # t

C20_PollStep ==
    /\ (\E r \in sent' : r.ep = "GET /eval/status/{id}") =>
          ev'.op = "pollTick" /\ ev'.task \notin finished
    /\ (ev'.op = "pollOk" /\ ev'.status \in {"completed", "failed"}) =>
          /\ \E r \in sent' : r.ep = "GET /eval/results"
          /\ resultsPending' = resultsPending + 1

C20_PollingEnds == []C20_Gone /\ [][C20_PollStep]_vars

C20_Witness ==
    /\ ev.op = "pollOk" /\ ev.status = "running"
    /\ ev.task \in finished
    /\ Len(runningTasks) = 1 /\ runningTasks[1].task_id # ev.task
    /\ intervals = {runningTasks[1].task_id}

\* C21: a page load onto a protected page with a stored token the server
\* accepts does not redirect to /login while the session is re-hydrated.
C21_NoLoginRedirect ==
    (ev.op = "load" /\ token \in ValidTokens
        /\ path \in {"/dashboard", "/notebook", "/chat", "/eval"})
    => rendered # "NavigateLogin"

\* C22: when GET /auth/me of the page load fails, the stored token and the
\* default Authorization header are removed, user is null and loading is
\* false afterwards; loading always becomes false; a load without a stored
\* token makes no /auth/me request and has loading false.
C22_FailStep ==
    ev'.op = "fetchUserFail" =>
        /\ mePending # NULL
        /\ token' = NULL /\ authHeader' = NoHeader /\ user' = NULL
        /\ ~loading' /\ mePending' = NULL

C22_NoTokenLoad ==
    (ev.op = "load" /\ token = NULL) => sent = {} /\ ~loading /\ mePending = NULL

C22_NoLaterMe == \A r \in sent' : r.ep # "GET /auth/me"

C23_NoFrameDropped ==
    \A k \in 1..Len(runs) : runs[k].fullOutput = runs[k].arrived

\* C24: a task in the running-tasks list can still be removed from it: its
\* interval is set or a status request for it is in flight, also after the
\* status endpoint answered NotFound.
C24_NoStrandedTask ==
    \A i \in 1..Len(runningTasks) :
        \/ runningTasks[i].task_id \in intervals
        \/ Includes(polls, runningTasks[i].task_id)

\* C25: the progress shown for a task in the running-tasks list never
\* decreases from one state to the next, also when the responses of
\* overlapping status requests arrive out of order.
C25_ProgressStep ==
    \A i \in 1..Len(runningTasks), j \in 1..Len(runningTasks') :
        runningTasks[i].task_id = runningTasks'[j].task_id
        => runningTasks'[j].progress >= runningTasks[i].progress

C25_ProgressMonotone == [][C25_ProgressStep]_vars

\* C26: the step that stores the output of a finished run changes only the
\* output field of the cell it ran: the content the cell holds just before,
\* typed while the run was in flight, is kept.
C26_StoreStep ==
    (ev'.op \in {"runEnd", "handleStop", "runFail"} /\ ev'.index \in 1..Len(cells))
    => /\ ev'.index \in 1..Len(cells')
       /\ cells'[ev'.index].type = cells[ev'.index].type
       /\ cells'[ev'.index].content = cells[ev'.index].content

C26_ContentKept == [][C26_StoreStep]_vars

\* C27: the step that stores the output of a finished run leaves every other
\* cell of the list as it was just before: cells added, deleted or edited
\* while the run was in flight are not undone.
C27_StoreStep ==
    ev'.op \in {"runEnd", "handleStop", "runFail"}
    => /\ Len(cells') = Len(cells)
       /\ \A i \in 1..Len(cells) : i # ev'.index => cells'[i] = cells[i]

C27_OthersKept == [][C27_StoreStep]_vars

\* C28: for each code cell that is not running, the output pane shows the
\* output field of the cell now at that position of the cell list.
C28_PaneShowsStored ==
    \A i \in 1..Len(cells) :
        (cells[i].type # "markdown" /\ ~cellRunning[i])
        => cellOutput[i] = Or(cells[i].output, "")

\* C29: the messages of the chat page alternate user, assistant, user,
\* assistant, starting with a user message; a send adds exactly one user
\* message and one assistant message and happens only with non-blank input
\* while not generating; a send with blank input changes nothing and issues
\* no request.
C29_Alternates ==
    \A i \in 1..Len(messages) :
        messages[i].role = IF i % 2 = 1 THEN "user" ELSE "assistant"

C29_SendStep ==
    /\ (\E r \in sent' : r.ep = "POST /chat/completions") => ev'.op = "sendMessage"
    /\ ev'.op = "sendMessage" =>
          /\ Trim(input) # "" /\ ~isGenerating
          /\ messages' = messages \o <<[role |-> "user", content |-> Trim(input)],
                                       [role |-> "assistant", content |-> ""]>>
    /\ ev'.op = "sendMessageBlank" =>
          /\ messages' = messages /\ input' = input /\ isGenerating' = isGenerating
          /\ sent' = {}
    /\ Len(messages') \in {Len(messages), Len(messages) + 2, 0}

C29_Conversation == []C29_Alternates /\ [][C29_SendStep]_vars

C29_Witness ==
    /\ ev.op = "stopGeneration"
    /\ Len(messages) = 4
    /\ messages[2].content = "Error: Failed to get response. Please try again."
    /\ messages[3].role = "user" /\ messages[4].role = "assistant"
    /\ ~isGenerating

\* C30: whenever user is non-null, local storage holds a token and the
\* default Authorization header is Bearer followed by that token.
C30_UserHasSession ==
    user # NULL => (token # NULL /\ authHeader = Bearer(token))

====
